---- MODULE Spec2Model ----
(***************************************************************************)
(* Buddhabrot WebGPU renderer: the compute kernel (sampling, two-pass      *)
(* escape/retrace, atomic histogram accumulation) and the host frame loop  *)
(* (invalidation, clear, time-budgeted simulate dispatches).               *)
(*                                                                         *)
(* Real numbers are fixed-point integers.  Fractal-plane coordinates,      *)
(* cos/sin and normalised screen coordinates are in units of 1/Scale;      *)
(* zoom is in units of 1/ZoomScale; random scalars in units of 1/RScale;   *)
(* times in units of 1/TimeScale ms.  Every product is divided back with   *)
(* \div (floor), one rounding per arithmetic operation of the source.      *)
(***************************************************************************)
EXTENDS Integers, Sequences, FiniteSets, TLC

\* ------------------------------------------------------------------------
\* Program constants (src/src/constants.ts)
\* ------------------------------------------------------------------------
WIDTH == 1024
HEIGHT == 1024
COMPILE_MAX_ITERATIONS == 2000
MIN_ITERATIONS == 20
COMPUTE_BUDGET_MS == 12

\* ------------------------------------------------------------------------
\* Fixed-point resolutions of the model
\* ------------------------------------------------------------------------
Scale == 1024
ZoomScale == 1000
RScale == 21504
TimeScale == 10

DEFAULT_CENTER_X == 0
DEFAULT_CENTER_Y == 0
\* 1.5 and 1.75 in units of 1/Scale
DEFAULT_HALF_W == (3 * Scale) \div 2
DEFAULT_HALF_H == (7 * Scale) \div 4

\* ------------------------------------------------------------------------
\* Bounds of the model
\* ------------------------------------------------------------------------
NumLanes == 2
MaxDispatches == 2
MaxEvents == 2          \* input events handled in one behaviour
MaxFrameCount == 8      \* frames start while frameCount is below this

Max2(a, b) == IF a >= b THEN a ELSE b
Min2(a, b) == IF a <= b THEN a ELSE b
Abs(a) == IF a >= 0 THEN a ELSE -a

Channels == {"R", "G", "B"}

\* ------------------------------------------------------------------------
\* Histogram buffers: Int32Array(TOTAL_PIXELS), kept sparse.  A buffer is a
\* function from the pixel indices that were written to their counters;
\* every other pixel holds 0.
\* ------------------------------------------------------------------------
EmptyBuffer == << >>

Element(buf, idx) == IF idx \in DOMAIN buf THEN buf[idx] ELSE 0

\* like atomicAdd, but a store in place of the atomic read-modify-write (for comparison)
atomicAddStore(buf, idx, v) ==
    IF idx \in DOMAIN buf THEN [buf EXCEPT ![idx] = v]
    ELSE buf @@ (idx :> v)
\* like atomicAdd, but an add of twice the operand (for comparison)
atomicAddTwice(buf, idx, v) ==
    IF idx \in DOMAIN buf THEN [buf EXCEPT ![idx] = @ + 2 * v]
    ELSE buf @@ (idx :> 2 * v)
atomicAdd(buf, idx, v) ==
    IF idx \in DOMAIN buf THEN [buf EXCEPT ![idx] = @ + v]
    ELSE buf @@ (idx :> v)

\* clearNode: element(instanceIndex).assign(0) for every pixel of all three
ClearedHist == [ch \in Channels |-> EmptyBuffer]

\* ------------------------------------------------------------------------
\* The iteration map Z <- Z^2 + C and the escape test |Z|^2 > 4
\* ------------------------------------------------------------------------
ZStep(z, c) ==
    [x |-> (z.x * z.x) \div Scale - (z.y * z.y) \div Scale + c.x,
     y |-> ((z.x * z.y) \div Scale) * 2 + c.y]

\* zx*zx + zy*zy > 4.  A component beyond 2 decides the test by itself; the
\* squares are formed only below that, where they fit the integers of TLC.
Escaped(z) ==
    \/ Abs(z.x) > 2 * Scale
    \/ Abs(z.y) > 2 * Scale
    \/ (z.x * z.x) \div Scale + (z.y * z.y) \div Scale > 4 * Scale

ZeroZ == [x |-> 0, y |-> 0]

\* ------------------------------------------------------------------------
\* importanceSampler: C from (r1, r2, r3), the zoom and the sample region
\* ------------------------------------------------------------------------
Clamp(v, lo, hi) == IF v < lo THEN lo ELSE IF v > hi THEN hi ELSE v

\* like importanceFraction, but without the upper clamp (for comparison)
importanceFractionUncapped(zoom) ==
    IF zoom = 0 THEN 0
    ELSE Max2(Scale - (Scale * ZoomScale) \div zoom, 0)
\* float(1).sub(float(1).div(zoom)).clamp(0, 0.85), in units of 1/Scale;
\* a zoom of 0 divides to +infinity, which clamps to 0
importanceFraction(zoom) ==
    IF zoom = 0 THEN 0
    ELSE Clamp(Scale - (Scale * ZoomScale) \div zoom, 0, (85 * Scale) \div 100)

importanceSampler(r, u) ==
    IF (r.r3 * Scale) \div RScale < importanceFraction(u.zoom)
    THEN [x |-> (r.r1 * (u.sampleMaxCx - u.sampleMinCx)) \div RScale + u.sampleMinCx,
          y |-> (r.r2 * (u.sampleMaxCy - u.sampleMinCy)) \div RScale + u.sampleMinCy]
    ELSE [x |-> (r.r1 * ((7 * Scale) \div 2)) \div RScale - (5 * Scale) \div 2,
          y |-> (r.r2 * (3 * Scale)) \div RScale - (3 * Scale) \div 2]

\* ------------------------------------------------------------------------
\* quickEscapeSampler, pass 1: quick reject loop (Loop(MIN_ITERATIONS))
\* q = [z, quickEscape, brk, iters]; iters counts the iteration steps done
\* ------------------------------------------------------------------------
QuickInit == [z |-> ZeroZ, quickEscape |-> 0, brk |-> FALSE, iters |-> 0]

QuickIter(q, c) ==
    IF q.brk THEN q
    ELSE LET nz == ZStep(q.z, c)
         IN  [z |-> nz,
              quickEscape |-> IF Escaped(nz) THEN 1 ELSE 0,
              brk |-> Escaped(nz),
              iters |-> q.iters + 1]

RECURSIVE QuickLoop(_, _, _)
QuickLoop(q, c, n) ==
    IF n = 0 \/ q.brk THEN q
    ELSE IF n = 1 THEN QuickIter(q, c)
    ELSE QuickLoop(QuickLoop(q, c, n \div 2), c, n - n \div 2)

\* ------------------------------------------------------------------------
\* pass 1 continued: escape detection
\* (Loop(COMPILE_MAX_ITERATIONS - MIN_ITERATIONS))
\* ------------------------------------------------------------------------
EscapeInit(q) ==
    [z |-> q.z, escaped |-> 0, escapeIter |-> MIN_ITERATIONS,
     brk |-> FALSE, iters |-> q.iters]

\* like EscapeIterate, but the maxAll test with > in place of >= (for comparison)
EscapeIterateOffByOne(e, c, maxAll) ==
    IF e.brk THEN e
    ELSE IF e.escapeIter > maxAll THEN [e EXCEPT !.brk = TRUE]
    ELSE LET nz == ZStep(e.z, c)
         IN  [z |-> nz,
              escaped |-> IF Escaped(nz) THEN 1 ELSE 0,
              escapeIter |-> e.escapeIter + 1,
              brk |-> Escaped(nz),
              iters |-> e.iters + 1]
EscapeIterate(e, c, maxAll) ==
    IF e.brk THEN e
    ELSE IF e.escapeIter >= maxAll THEN [e EXCEPT !.brk = TRUE]
    ELSE LET nz == ZStep(e.z, c)
         IN  [z |-> nz,
              escaped |-> IF Escaped(nz) THEN 1 ELSE 0,
              escapeIter |-> e.escapeIter + 1,
              brk |-> Escaped(nz),
              iters |-> e.iters + 1]

RECURSIVE EscapeLoop(_, _, _, _)
EscapeLoop(e, c, maxAll, n) ==
    IF n = 0 \/ e.brk THEN e
    ELSE IF n = 1 THEN EscapeIterate(e, c, maxAll)
    ELSE EscapeLoop(EscapeLoop(e, c, maxAll, n \div 2), c, maxAll, n - n \div 2)

\* Result of pass 1 for the constant c under the uniforms u
Pass1(c, u) ==
    LET q == QuickLoop(QuickInit, c, MIN_ITERATIONS)
    IN  IF q.quickEscape = 0
        THEN LET e == EscapeLoop(EscapeInit(q), c, u.maxAllIter,
                                 COMPILE_MAX_ITERATIONS - MIN_ITERATIONS)
             IN  [quickEscape |-> 0, escaped |-> e.escaped,
                  escapeIter |-> e.escapeIter, z |-> e.z, iters |-> e.iters]
        ELSE [quickEscape |-> 1, escaped |-> 0,
              escapeIter |-> MIN_ITERATIONS, z |-> q.z, iters |-> q.iters]

\* like Plotted, but without the test of escaped (for comparison)
PlottedNoEscapeTest(p) == p.quickEscape = 0
\* If(quickEscape.equal(0)) ... If(escaped.equal(1)): the path is plotted
Plotted(p) == p.quickEscape = 0 /\ p.escaped = 1

\* ------------------------------------------------------------------------
\* nebulabrot: per-channel write flags, and Z reset for the retrace
\* ------------------------------------------------------------------------
\* like nebulabrot, but without the reset of Z (for comparison)
nebulabrotNoReset(escapeIter, u, z) ==
    [writeR |-> IF escapeIter <= u.redIter THEN 1 ELSE 0,
     writeG |-> IF escapeIter <= u.greenIter THEN 1 ELSE 0,
     writeB |-> IF escapeIter <= u.blueIter THEN 1 ELSE 0,
     z |-> z]
\* like nebulabrot, but with < in place of <= (for comparison)
nebulabrotStrict(escapeIter, u, z) ==
    [writeR |-> IF escapeIter < u.redIter THEN 1 ELSE 0,
     writeG |-> IF escapeIter < u.greenIter THEN 1 ELSE 0,
     writeB |-> IF escapeIter < u.blueIter THEN 1 ELSE 0,
     z |-> ZeroZ]
nebulabrot(escapeIter, u, z) ==
    [writeR |-> IF escapeIter <= u.redIter THEN 1 ELSE 0,
     writeG |-> IF escapeIter <= u.greenIter THEN 1 ELSE 0,
     writeB |-> IF escapeIter <= u.blueIter THEN 1 ELSE 0,
     z |-> ZeroZ]

\* ------------------------------------------------------------------------
\* juddhabrot: 4D rotation and projection to normalised screen coordinates.
\* A division by a zero half-extent gives an infinity or a NaN in the
\* source, which fails the viewport test: inView is FALSE.
\* ------------------------------------------------------------------------
\* like juddhabrot, but with the cosine as the coefficient of C as well
\* (for comparison)
juddhabrotMixesC(z, c, u) ==
    LET rzx == (z.x * u.rotCosXZ) \div Scale - (c.x * u.rotCosXZ) \div Scale
        rzy == (z.y * u.rotCosYW) \div Scale - (c.y * u.rotCosYW) \div Scale
        fracX == rzy
        fracY == -rzx
        finite == u.viewHalfW > 0 /\ u.viewHalfH > 0
        ux == IF finite
              THEN ((fracX - u.viewCenterX) * Scale) \div (u.viewHalfW * 2) + Scale \div 2
              ELSE -1
        uy == IF finite
              THEN ((fracY - u.viewCenterY) * Scale) \div (u.viewHalfH * 2) + Scale \div 2
              ELSE -1
    IN  [ux |-> ux, uy |-> uy]
juddhabrot(z, c, u) ==
    LET rzx == (z.x * u.rotCosXZ) \div Scale - (c.x * u.rotSinXZ) \div Scale
        rzy == (z.y * u.rotCosYW) \div Scale - (c.y * u.rotSinYW) \div Scale
        fracX == rzy
        fracY == -rzx
        finite == u.viewHalfW > 0 /\ u.viewHalfH > 0
        ux == IF finite
              THEN ((fracX - u.viewCenterX) * Scale) \div (u.viewHalfW * 2) + Scale \div 2
              ELSE -1
        uy == IF finite
              THEN ((fracY - u.viewCenterY) * Scale) \div (u.viewHalfH * 2) + Scale \div 2
              ELSE -1
    IN  [ux |-> ux, uy |-> uy]

\* The compute node passes (..., viewHalfW, viewHalfH, ...) by position to
\* quickEscapeSampler, which declares (..., viewHalfH, viewHalfW, ...): inside
\* the kernel each of the two names holds the other uniform.
SamplerArgs(u) == [u EXCEPT !.viewHalfW = u.viewHalfH, !.viewHalfH = u.viewHalfW]

InViewport(p) == p.ux >= 0 /\ p.ux < Scale /\ p.uy >= 0 /\ p.uy < Scale

\* px = uint(ux * WIDTH), py = uint(uy * HEIGHT), idx = py * WIDTH + px
PixelIndex(p) == ((p.uy * HEIGHT) \div Scale) * WIDTH + (p.ux * WIDTH) \div Scale


\* One iteration of the retrace loop (Loop(COMPILE_MAX_ITERATIONS)) of one
\* lane.  t = [z, retraceIter, brk] is the lane's loop state, w its write
\* flags, h the three histogram buffers it increments.
RetraceIterate(t, h, c, w, escapeIter, u) ==
    IF t.brk THEN [t |-> t, h |-> h]
    ELSE IF t.retraceIter >= escapeIter \/ t.retraceIter >= COMPILE_MAX_ITERATIONS
    THEN [t |-> [t EXCEPT !.brk = TRUE], h |-> h]
    ELSE LET nz == ZStep(t.z, c)
             p == juddhabrot(nz, c, SamplerArgs(u))
             idx == PixelIndex(p)
             hR == IF InViewport(p) /\ w.writeR = 1
                   THEN atomicAdd(h["R"], idx, 1) ELSE h["R"]
             hG == IF InViewport(p) /\ w.writeG = 1
                   THEN atomicAdd(h["G"], idx, 1) ELSE h["G"]
             hB == IF InViewport(p) /\ w.writeB = 1
                   THEN atomicAdd(h["B"], idx, 1) ELSE h["B"]
         IN  [t |-> [z |-> nz, retraceIter |-> t.retraceIter + 1, brk |-> Escaped(nz)],
              h |-> [R |-> hR, G |-> hG, B |-> hB]]

RECURSIVE RetraceLoop(_, _, _, _, _, _)
RetraceLoop(s, c, w, escapeIter, u, n) ==
    IF n = 0 \/ s.t.brk THEN s
    ELSE IF n = 1 THEN RetraceIterate(s.t, s.h, c, w, escapeIter, u)
    ELSE RetraceLoop(RetraceLoop(s, c, w, escapeIter, u, n \div 2),
                     c, w, escapeIter, u, n - n \div 2)

\* computeNode for one lane, run to completion on the buffers h:
\* randomNumberGenerator's outputs r -> importanceSampler -> quickEscapeSampler
ComputeLane(r, u, h) ==
    LET c == importanceSampler(r, u)
        p == Pass1(c, u)
    IN  IF Plotted(p)
        THEN LET w == nebulabrot(p.escapeIter, u, p.z)
             IN  RetraceLoop([t |-> [z |-> w.z, retraceIter |-> 0, brk |-> FALSE],
                              h |-> h],
                             c, w, p.escapeIter, u, COMPILE_MAX_ITERATIONS + 1).h
        ELSE h

\* ------------------------------------------------------------------------
\* Host: props -> uniforms (the iteration and rotation sync effects)
\* ------------------------------------------------------------------------
Max3(a, b, c) == Max2(a, Max2(b, c))

\* Math.cos / Math.sin of a rotation slider angle (degrees), 1/Scale units
Cos(a) == CASE a = 0 -> Scale [] a = 90 -> 0 [] a = 180 -> -Scale
            [] a = -90 -> 0 [] a = 60 -> Scale \div 2 [] OTHER -> Scale
Sin(a) == CASE a = 0 -> 0 [] a = 90 -> Scale [] a = 180 -> 0
            [] a = -90 -> -Scale [] a = 60 -> (887 * Scale) \div 1024 [] OTHER -> 0

DefaultProps ==
    [redIter |-> 50, greenIter |-> 500, blueIter |-> 5000, maxIterations |-> 500,
     nebulaEnabled |-> FALSE, nebulaAesthetic |-> FALSE, rotXZ |-> 0, rotYW |-> 0]

\* like EffectiveIters, but without the cap by maxIterations (for comparison)
EffectiveItersUncapped(p) ==
    IF p.nebulaAesthetic \/ p.nebulaEnabled
    THEN [r |-> p.redIter, g |-> p.greenIter, b |-> p.blueIter]
    ELSE [r |-> p.maxIterations, g |-> p.maxIterations, b |-> p.maxIterations]
\* the effective thresholds of the iteration sync effect
EffectiveIters(p) ==
    IF p.nebulaAesthetic
    THEN [r |-> p.redIter, g |-> p.greenIter, b |-> p.blueIter]
    ELSE IF p.nebulaEnabled
    THEN [r |-> Min2(p.redIter, p.maxIterations),
          g |-> Min2(p.greenIter, p.maxIterations),
          b |-> Min2(p.blueIter, p.maxIterations)]
    ELSE [r |-> p.maxIterations, g |-> p.maxIterations, b |-> p.maxIterations]

IterUniforms(u, p) ==
    LET e == EffectiveIters(p)
    IN  [u EXCEPT !.redIter = e.r, !.greenIter = e.g, !.blueIter = e.b,
                  !.maxAllIter = Max3(e.r, e.g, e.b)]

RotUniforms(u, p) ==
    [u EXCEPT !.rotCosXZ = Cos(p.rotXZ), !.rotSinXZ = Sin(p.rotXZ),
              !.rotCosYW = Cos(p.rotYW), !.rotSinYW = Sin(p.rotYW)]

\* the uniforms as created by useMemo(() => uniform(...))
CreatedUniforms ==
    [redIter |-> 50, greenIter |-> 500, blueIter |-> 5000, maxAllIter |-> 5000,
     rotCosXZ |-> Scale, rotSinXZ |-> 0, rotCosYW |-> Scale, rotSinYW |-> 0,
     viewCenterX |-> DEFAULT_CENTER_X, viewCenterY |-> DEFAULT_CENTER_Y,
     viewHalfW |-> DEFAULT_HALF_W, viewHalfH |-> DEFAULT_HALF_H,
     zoom |-> ZoomScale,
     sampleMinCx |-> -((5 * Scale) \div 2), sampleMaxCx |-> Scale,
     sampleMinCy |-> -((3 * Scale) \div 2), sampleMaxCy |-> (3 * Scale) \div 2,
     frameCount |-> 1]

\* the uniforms after the mount effects have run with the props p
MountedUniforms(p) == RotUniforms(IterUniforms(CreatedUniforms, p), p)


\* ------------------------------------------------------------------------
\* Host: view state, zoom target and the canvas
\* ------------------------------------------------------------------------
MIN_ZOOM == ZoomScale \div 2
MAX_ZOOM == 5000 * ZoomScale

\* canvas.getBoundingClientRect(): left = top = 0
CanvasWidth == 1280
CanvasHeight == 1024

getViewMetrics ==
    [meshSize |-> CanvasHeight, meshLeft |-> (CanvasWidth - CanvasHeight) \div 2]

HalfW(zoom) == (DEFAULT_HALF_W * ZoomScale) \div zoom
HalfH(zoom) == (DEFAULT_HALF_H * ZoomScale) \div zoom

\* mx, my in 1/Scale of the mesh; fracX, fracY in 1/Scale
mouseToFractal(clientX, clientY, view) ==
    LET m  == getViewMetrics
        mx == ((clientX - m.meshLeft) * Scale) \div m.meshSize
        my == Scale - (clientY * Scale) \div m.meshSize
    IN  [fracX |-> view.centerX + ((mx - Scale \div 2) * 2 * HalfW(view.zoom)) \div Scale,
         fracY |-> view.centerY + ((my - Scale \div 2) * 2 * HalfH(view.zoom)) \div Scale,
         mx |-> mx, my |-> my]

InitialView == [centerX |-> DEFAULT_CENTER_X, centerY |-> DEFAULT_CENTER_Y,
                zoom |-> ZoomScale]
InitialTarget == [centerX |-> DEFAULT_CENTER_X, centerY |-> DEFAULT_CENTER_Y,
                  zoom |-> ZoomScale, animating |-> FALSE]

\* ZOOM_DAMPING, in hundredths
ZOOM_DAMPING == 15

\* (t - v) * ZOOM_DAMPING, rounded away from zero at the model's resolution
Damp(d) ==
    IF d >= 0 THEN (d * ZOOM_DAMPING + 99) \div 100
    ELSE -(((-d) * ZOOM_DAMPING + 99) \div 100)

\* the view uniforms and sampling box written by applyView for the view v
ViewUniforms(u, v) ==
    LET halfW == HalfW(v.zoom)
        halfH == HalfH(v.zoom)
        viewMinX == v.centerX - halfW
        viewMaxX == v.centerX + halfW
        viewMinY == v.centerY - halfH
        viewMaxY == v.centerY + halfH
    IN  [u EXCEPT !.viewCenterX = v.centerX, !.viewCenterY = v.centerY,
                  !.viewHalfW = halfW, !.viewHalfH = halfH, !.zoom = v.zoom,
                  !.sampleMinCy = Max2(-((3 * Scale) \div 2), viewMinX - halfW),
                  !.sampleMaxCy = Min2((3 * Scale) \div 2, viewMaxX + halfW),
                  !.sampleMinCx = Max2(-((5 * Scale) \div 2), -(viewMaxY + halfH)),
                  !.sampleMaxCx = Min2(Scale, -(viewMinY - halfH))]

\* like maxPassesFor, but without the outer Math.max(1, ...) (for comparison)
maxPassesUnclamped(lastFrameTime) ==
    LET passTime == Max2(lastFrameTime, 1 * TimeScale)
    IN  (COMPUTE_BUDGET_MS * TimeScale) \div passTime
\* Scheduler: passes of a frame for the smoothed estimate (1/TimeScale ms)
maxPassesFor(lastFrameTime) ==
    LET passTime == Max2(lastFrameTime, 1 * TimeScale)
    IN  Max2(1, (COMPUTE_BUDGET_MS * TimeScale) \div passTime)

\* lastFrameTime * 0.7 + (elapsed / max(passes, 1)) * 0.3
SmoothedFrameTime(lastFrameTime, elapsed, passes) ==
    (lastFrameTime * 7) \div 10 + ((elapsed \div Max2(passes, 1)) * 3) \div 10

\* ------------------------------------------------------------------------
\* Orbit tracer (computeOrbit): the orbit of the constant under the pointer,
\* in screen pixels.  rect.left = rect.top = 0: the canvas fills the window.
\* ------------------------------------------------------------------------
DISPLAY_LIMIT == 2000

\* like OrbitProject, but with the two half-extents exchanged (for comparison)
OrbitProjectSwapped(z, c, view, rotation) ==
    LET m     == getViewMetrics
        halfW == HalfH(view.zoom)
        halfH == HalfW(view.zoom)
        rzxVal == (z.x * Cos(rotation.xz)) \div Scale - (c.x * Sin(rotation.xz)) \div Scale
        rzyVal == (z.y * Cos(rotation.yw)) \div Scale - (c.y * Sin(rotation.yw)) \div Scale
        ofx   == rzyVal
        ofy   == -rzxVal
        finite == halfW > 0 /\ halfH > 0
        ux == IF finite
              THEN ((ofx - view.centerX) * Scale) \div (2 * halfW) + Scale \div 2
              ELSE -1
        uy == IF finite
              THEN ((ofy - view.centerY) * Scale) \div (2 * halfH) + Scale \div 2
              ELSE -1
    IN  [x |-> m.meshLeft + (ux * m.meshSize) \div Scale,
         y |-> ((Scale - uy) * m.meshSize) \div Scale]
\* rotation, then the map of the rotated point back to the screen.  A zero
\* half-extent is treated as in juddhabrot.
OrbitProject(z, c, view, rotation) ==
    LET m     == getViewMetrics
        halfW == HalfW(view.zoom)
        halfH == HalfH(view.zoom)
        rzxVal == (z.x * Cos(rotation.xz)) \div Scale - (c.x * Sin(rotation.xz)) \div Scale
        rzyVal == (z.y * Cos(rotation.yw)) \div Scale - (c.y * Sin(rotation.yw)) \div Scale
        ofx   == rzyVal
        ofy   == -rzxVal
        finite == halfW > 0 /\ halfH > 0
        ux == IF finite
              THEN ((ofx - view.centerX) * Scale) \div (2 * halfW) + Scale \div 2
              ELSE -1
        uy == IF finite
              THEN ((ofy - view.centerY) * Scale) \div (2 * halfH) + Scale \div 2
              ELSE -1
    IN  [x |-> m.meshLeft + (ux * m.meshSize) \div Scale,
         y |-> ((Scale - uy) * m.meshSize) \div Scale]

OrbitInit == [z |-> ZeroZ, points |-> << >>, escaped |-> FALSE, brk |-> FALSE]

\* one iteration of the for loop.  2 * zx * zy and zx * zy * 2 are the same
\* number in binary floating point (a doubling is exact), hence ZStep.
OrbitIterate(o, c, view, rotation) ==
    IF o.brk THEN o
    ELSE LET nz == ZStep(o.z, c)
         IN  [z |-> nz,
              points |-> Append(o.points, OrbitProject(nz, c, view, rotation)),
              escaped |-> Escaped(nz),
              brk |-> Escaped(nz)]

RECURSIVE OrbitLoop(_, _, _, _, _)
OrbitLoop(o, c, view, rotation, n) ==
    IF n = 0 \/ o.brk THEN o
    ELSE IF n = 1 THEN OrbitIterate(o, c, view, rotation)
    ELSE OrbitLoop(OrbitLoop(o, c, view, rotation, n \div 2), c, view, rotation,
                   n - n \div 2)

\* << >> is null; otherwise the one record
computeOrbit(clientX, clientY, view, iters, rotation) ==
    LET f == mouseToFractal(clientX, clientY, view)
    IN  IF f.mx < 0 \/ f.mx > Scale \/ f.my < 0 \/ f.my > Scale THEN << >>
        ELSE LET c == [x |-> -f.fracY, y |-> f.fracX]
                 maxIter == Max3(iters.red, iters.green, iters.blue)
                 displayLimit == Min2(maxIter, DISPLAY_LIMIT)
                 o == OrbitLoop(OrbitInit, c, view, rotation, displayLimit)
             IN  << [points |-> o.points, escaped |-> o.escaped,
                     escapeIter |-> Len(o.points), cx |-> c.x, cy |-> c.y,
                     redIter |-> iters.red, greenIter |-> iters.green,
                     blueIter |-> iters.blue] >>

\* ------------------------------------------------------------------------
\* Entropy beacon (curby.ts): the seed pool and its refresh.  Seeds and
\* Math.random() draws are in 1/SeedScale units, Date.now() in ms counted
\* from an origin that leaves it above REFRESH_INTERVAL, as the epoch does.
\* ------------------------------------------------------------------------
REFRESH_INTERVAL == 60000
SeedScale == 1000
\* golden = 0.6180339887498949
Golden == 618

\* the module-level state object
InitialState ==
    [seeds |-> << >>, index |-> 0, lastFetch |-> 0, chainCid |-> << >>,
     fetching |-> FALSE, ready |-> FALSE]

\* what the two requests of fetchPulse can come to.  discoverChainCid: the
\* request fails, the status is not OK, no chain is named CURBy-RNG, or the
\* chain is found.  The pulse request: it fails, the status is not OK, the
\* payload has no salt, the salt cannot be decoded, or the seeds are read
\* (none when the salt is shorter than 32 bits).
ChainOutcomes == {"fail", "notOk", "noChain", "found"}
SeedLists == {<< >>, <<250>>, <<0, 999>>}
PulseOutcomes ==
    {[threw |-> TRUE, seeds |-> << >>, why |-> w] :
        w \in {"fail", "notOk", "noSalt", "badSalt"}}
    \cup {[threw |-> FALSE, seeds |-> s, why |-> "seeds"] : s \in SeedLists}
ChainError == [threw |-> TRUE, seeds |-> << >>, why |-> "noChain"]

\* Math.random()
FallbackDraws == {7, 993}

\* Date.now() - state.lastFetch > REFRESH_INTERVAL
Stale(s, t) == t - s.lastFetch > REFRESH_INTERVAL

\* like refreshPool, but without the test of the fetching flag (for comparison)
refreshPoolUnguarded(s, fl, awaiter) ==
    [state |-> [s EXCEPT !.fetching = TRUE],
     inflight |-> Append(fl, [stage |-> IF s.chainCid = << >> THEN "chains"
                                        ELSE "pulse",
                              awaiter |-> awaiter]),
     started |-> TRUE]
\* refreshPool up to its first await: returns at once while a fetch is in
\* flight, else raises the flag and enters fetchPulse, which awaits the
\* chain discovery when no chain is known and the pulse request otherwise.
\* awaiter is the initCurby call that awaits the promise (0: nobody).
refreshPool(s, fl, awaiter) ==
    IF s.fetching
    THEN [state |-> s, inflight |-> fl, started |-> FALSE]
    ELSE [state |-> [s EXCEPT !.fetching = TRUE],
          inflight |-> Append(fl, [stage |-> IF s.chainCid = << >> THEN "chains"
                                             ELSE "pulse",
                                   awaiter |-> awaiter]),
          started |-> TRUE]

\* like refreshPoolSettle, but without the catch clause (for comparison)
refreshPoolSettleNoCatch(s, result, t) ==
    [state |-> IF ~result.threw /\ Len(result.seeds) > 0
               THEN [s EXCEPT !.seeds = result.seeds, !.index = 0,
                              !.lastFetch = t, !.ready = TRUE,
                              !.fetching = FALSE]
               ELSE [s EXCEPT !.fetching = FALSE],
     promise |-> IF result.threw THEN "rejected" ELSE "resolved"]
\* refreshPool after fetchPulse has returned or thrown: the pool is replaced
\* by a non-empty seed list, an error is caught and logged, and the finally
\* clause lowers the flag
refreshPoolSettle(s, result, t) ==
    [state |-> IF ~result.threw /\ Len(result.seeds) > 0
               THEN [s EXCEPT !.seeds = result.seeds, !.index = 0,
                              !.lastFetch = t, !.ready = TRUE,
                              !.fetching = FALSE]
               ELSE [s EXCEPT !.fetching = FALSE],
     promise |-> "resolved"]

\* the value nextSeed returns in the state s (after its stale check), with
\* rnd the Math.random() draw
nextSeedValue(s, rnd) ==
    IF ~s.ready \/ Len(s.seeds) = 0 THEN rnd
    ELSE (s.seeds[(s.index % Len(s.seeds)) + 1] + (s.index + 1) * Golden)
             % SeedScale

\* the pool after the call: state.index++
nextSeedState(s) ==
    IF ~s.ready \/ Len(s.seeds) = 0 THEN s ELSE [s EXCEPT !.index = @ + 1]

RemoveAt(seq, i) == [k \in 1 .. Len(seq) - 1 |-> IF k < i THEN seq[k] ELSE seq[k + 1]]

\* ------------------------------------------------------------------------
\* State
\* ------------------------------------------------------------------------
VARIABLES
    uniforms,       \* the TSL uniform nodes read by the kernel and the material
    hist,           \* redBuffer, greenBuffer, blueBuffer
    lanes,          \* GPU: the lanes of the simulate dispatch in flight
    dispatched,     \* GPU: simulate dispatches started (bounded by MaxDispatches)
    epochPaths,     \* history: the paths of the lanes begun since the last clear
    viewRef,        \* viewRef.current
    zoomTarget,     \* zoomTarget.current
    dragging,       \* dragging.current
    lastMouse,      \* lastMouse.current
    props,          \* the props the component was last rendered with
    prevIters,      \* prevIters.current
    prevRot,        \* prevRot.current
    needsClearRef,  \* needsClearRef.current
    frameCount,     \* frameCount.current
    lastFrameTime,  \* lastFrameTime.current, in 1/TimeScale ms
    pc,             \* position of the host in the useFrame callback
    maxPasses,      \* useFrame local
    passes,         \* useFrame local
    simLog,         \* history: the randoms of the simulate dispatches since the last clear
    frameOps,       \* history: the dispatches issued in the current frame
    invalidAtCompute, \* history: needsClearRef when the frame reached its compute section
    lastOp,         \* history: the handler or frame step that ran last
    events,         \* history: input events handled (bounded by MaxEvents)
    orbit,          \* globalThis.__buddhabrotOrbit: << >> (null) or <<record>>
    orbitEnabled,   \* globalThis.__buddhabrotOrbitEnabled
    simParams,      \* history: the kernel parameters of the simulate dispatches
                    \* since the last clear
    state,          \* curby.ts: the module-level state object
    now,            \* Date.now()
    inflight,       \* the refreshPool calls suspended in fetchPulse, oldest first
    initPromises,   \* the promises returned by the calls of initCurby
    seed,           \* seed.value, the seed uniform
    started,        \* history: the fetches started so far
    finished,       \* history: << >> or when the last fetch finished, and how
    navigatorGpu,   \* navigator.gpu is defined
    gpuError,       \* App state gpuError is set
    effects,        \* the locals of each run of the renderer lifecycle effect
    renderers,      \* the renderer each run created: its status and gl.compute
    canvases,       \* the runs whose canvas is a child of the mount element
    listeners,      \* the runs whose handleResize is a resize listener
    roots,          \* the runs whose root is created and not unmounted
    updateHook      \* globalThis.__buddhabrotUpdate: 0 (undefined) or the run

kernelVars == <<uniforms, hist, lanes, dispatched, epochPaths>>
viewVars == <<viewRef, zoomTarget, dragging, lastMouse>>
propVars == <<props, prevIters, prevRot>>
frameVars == <<lastFrameTime, pc, maxPasses, passes, frameOps, invalidAtCompute>>
curbyVars == <<state, now, inflight, initPromises, seed, started, finished>>
appVars == <<navigatorGpu, gpuError, effects, renderers, canvases, listeners,
             roots, updateHook>>
outerVars == <<curbyVars, appVars>>
hostVars == <<viewRef, zoomTarget, dragging, lastMouse, props, prevIters, prevRot,
              needsClearRef, frameCount, lastFrameTime, pc, maxPasses, passes,
              simLog, frameOps, invalidAtCompute, lastOp, events,
              orbit, orbitEnabled, simParams, outerVars>>
vars == <<uniforms, hist, lanes, dispatched, epochPaths,
          viewRef, zoomTarget, dragging, lastMouse, props, prevIters, prevRot,
          needsClearRef, frameCount, lastFrameTime, pc, maxPasses, passes,
          simLog, frameOps, invalidAtCompute, lastOp, events,
          orbit, orbitEnabled, simParams, outerVars>>

\* the variables of the Buddhabrot component and of the GPU
componentVars == <<uniforms, hist, lanes, dispatched, epochPaths,
                   viewRef, zoomTarget, dragging, lastMouse, props, prevIters,
                   prevRot, needsClearRef, frameCount, lastFrameTime, pc,
                   maxPasses, passes, simLog, frameOps, invalidAtCompute, lastOp,
                   events, orbit, orbitEnabled, simParams>>

\* ------------------------------------------------------------------------
\* Entropy beacon: the calls of nextSeed and initCurby
\* ------------------------------------------------------------------------
\* Date.now() when the component mounts, the step of the clock and its cap
StartTime == 90000
TickMs == 30000
MaxTime == 240000
\* caps on the fetches started, on state.index and on the calls of initCurby
MaxFetches == 3
MaxIndex == 3
MaxInits == 2

\* the Math.random() draw of a pass of the frame loop
FrameDraw == 7

\* one call of nextSeed at the time t, on k = [state, inflight, seed, started]:
\* the stale check, which may start a refresh nobody awaits, then the value
nextSeedOnce(k, t, rnd) ==
    LET r == IF Stale(k.state, t)
             THEN refreshPool(k.state, k.inflight, 0)
             ELSE [state |-> k.state, inflight |-> k.inflight, started |-> FALSE]
    IN  [state |-> nextSeedState(r.state),
         inflight |-> r.inflight,
         seed |-> nextSeedValue(r.state, rnd),
         started |-> k.started + (IF r.started THEN 1 ELSE 0)]

RECURSIVE nextSeedTimes(_, _, _, _)
nextSeedTimes(k, t, rnd, n) ==
    IF n = 0 \/ k.started < 0 THEN k
    ELSE nextSeedTimes(nextSeedOnce(k, t, rnd), t, rnd, n - 1)

\* n times seed.value = nextSeed(), as the pass loop of a frame does
nextSeedCalls(rnd, n) ==
    LET k == nextSeedTimes([state |-> state, inflight |-> inflight,
                            seed |-> seed, started |-> started], now, rnd, n)
    IN  /\ state' = k.state
        /\ inflight' = k.inflight
        /\ seed' = k.seed
        /\ started' = k.started
        /\ UNCHANGED <<now, initPromises, finished>>

\* initCurby(): await refreshPool().  The promise is settled at once when
\* refreshPool returns at its test of the flag.
initCurbyCall ==
    LET r == refreshPool(state, inflight, Len(initPromises) + 1)
    IN  /\ state' = r.state
        /\ inflight' = r.inflight
        /\ initPromises' = Append(initPromises,
                                  IF r.started THEN "pending" ELSE "resolved")
        /\ started' = started + (IF r.started THEN 1 ELSE 0)
        /\ UNCHANGED <<now, seed, finished>>

\* the beacon after the mount effect of the component has called initCurby
\* and before the first request is answered
CurbyMounted ==
    /\ state = [InitialState EXCEPT !.fetching = TRUE]
    /\ now = StartTime
    /\ inflight = <<[stage |-> "chains", awaiter |-> 1]>>
    /\ initPromises = <<"pending">>
    /\ seed = 0
    /\ started = 1
    /\ finished = << >>

\* the page after the renderer lifecycle effect has run once and its
\* renderer has initialised: canvas, root, update hook and resize listener
\* are installed
AppMounted ==
    /\ navigatorGpu = TRUE
    /\ gpuError = FALSE
    /\ effects = <<[live |-> TRUE, cancelled |-> FALSE, init |-> "resolved",
                    renderer |-> TRUE, root |-> TRUE, handleResize |-> TRUE]>>
    /\ renderers = <<[status |-> "live", compute |-> TRUE]>>
    /\ canvases = {1}
    /\ listeners = {1}
    /\ roots = {1}
    /\ updateHook = 1

Lanes == 1 .. NumLanes

\* ------------------------------------------------------------------------
\* Inputs of the model: outputs (r1, r2, r3) of randomNumberGenerator, named
\* by the constant C = (cx, cy) the global branch of importanceSampler makes
\* of them (cx = 3.5 r1 - 2.5, cy = 3 r2 - 1.5)
\* ------------------------------------------------------------------------
RandomFor(cx, cy) ==
    [r1 |-> 6 * (cx + (5 * Scale) \div 2),
     r2 |-> 7 * (cy + (3 * Scale) \div 2),
     r3 |-> RScale \div 2]

ROrigin == RandomFor(0, 0)            \* never escapes
RQuick == RandomFor(1000, 0)          \* escapes at iteration 3
R21 == RandomFor(-1812, -12)          \* escapes at iteration 21
R300 == RandomFor(-756, -128)         \* escapes at iteration 300
R501 == RandomFor(384, -188)          \* escapes at iteration 501

\* The randoms lane l can draw in the d-th dispatch.  The long path runs in
\* the second dispatch beside rejected lanes; the first dispatch interleaves
\* short plotted paths, and further dispatches draw rejected samples.
LaneRandoms(d, l) ==
    IF d = 1
    THEN IF l = 1 THEN {ROrigin, RQuick, R21}
         ELSE IF l = 2 THEN {RQuick, R21}
         ELSE {RQuick}
    ELSE IF d = 2
    THEN IF l = 1 THEN {R21, R300}
         ELSE {RQuick}
    ELSE {RQuick}

\* Props the control panel can set, for the kernel's initial uniforms
KernelProps ==
    {DefaultProps,
     [DefaultProps EXCEPT !.nebulaAesthetic = TRUE],
     [DefaultProps EXCEPT !.maxIterations = 21],
     [DefaultProps EXCEPT !.maxIterations = 5]}

IdleLane ==
    [pc |-> "idle", r |-> ROrigin, c |-> ZeroZ,
     quickEscape |-> 0, escaped |-> 0, escapeIter |-> 0, iters |-> 0,
     writeR |-> 0, writeG |-> 0, writeB |-> 0,
     z |-> ZeroZ, retraceIter |-> 0]

\* The refs and props of the component after it has mounted with the props p
ComponentMounted(p) ==
    /\ viewRef = InitialView
    /\ zoomTarget = InitialTarget
    /\ dragging = FALSE
    /\ lastMouse = [x |-> 0, y |-> 0]
    /\ props = p
    /\ prevIters = [r |-> p.redIter, g |-> p.greenIter, b |-> p.blueIter,
                    max |-> p.maxIterations, nebula |-> p.nebulaEnabled,
                    aesthetic |-> p.nebulaAesthetic]
    /\ prevRot = [xz |-> 0, yw |-> 0]
    /\ needsClearRef = TRUE
    /\ frameCount = 0
    /\ lastFrameTime = 8 * TimeScale
    /\ pc = "idle"
    /\ maxPasses = 0
    /\ passes = 0
    /\ simLog = << >>
    /\ frameOps = << >>
    /\ invalidAtCompute = FALSE
    /\ lastOp = "mount"
    /\ events = 0
    /\ orbit = << >>
    /\ orbitEnabled = FALSE
    /\ simParams = {}

\* The host state after the component has mounted with the props p
HostMounted(p) ==
    /\ ComponentMounted(p)
    /\ CurbyMounted
    /\ AppMounted

\* ------------------------------------------------------------------------
\* GPU side: one simulate dispatch of NumLanes lanes, lanes interleaved
\* ------------------------------------------------------------------------
KernelInit ==
    /\ \E p \in KernelProps : uniforms = MountedUniforms(p) /\ HostMounted(p)
    /\ hist = ClearedHist
    /\ lanes = [l \in Lanes |-> IdleLane]
    /\ dispatched = 0
    /\ epochPaths = << >>

\* gpu.compute(computeNode): every lane gets its random scalars
Dispatch ==
    /\ \A l \in Lanes : lanes[l].pc = "idle"
    /\ dispatched < MaxDispatches
    /\ \E rs \in [Lanes -> UNION {LaneRandoms(dispatched + 1, l) : l \in Lanes}] :
          /\ \A l \in Lanes : rs[l] \in LaneRandoms(dispatched + 1, l)
          /\ lanes' = [l \in Lanes |-> [IdleLane EXCEPT !.pc = "ready", !.r = rs[l]]]
    /\ dispatched' = dispatched + 1
    /\ UNCHANGED <<uniforms, hist, epochPaths, hostVars>>

\* A lane samples its constant and runs pass 1 (lane-local work)
LaneBegin(l) ==
    /\ lanes[l].pc = "ready"
    /\ LET c == importanceSampler(lanes[l].r, uniforms)
           p == Pass1(c, uniforms)
           w == nebulabrot(p.escapeIter, uniforms, p.z)
       IN  /\ lanes' = [lanes EXCEPT ![l] =
                 IF Plotted(p)
                 THEN [pc |-> "retrace", r |-> lanes[l].r, c |-> c,
                       quickEscape |-> p.quickEscape, escaped |-> p.escaped,
                       escapeIter |-> p.escapeIter, iters |-> p.iters,
                       writeR |-> w.writeR, writeG |-> w.writeG, writeB |-> w.writeB,
                       z |-> w.z, retraceIter |-> 0]
                 ELSE [pc |-> "done", r |-> lanes[l].r, c |-> c,
                       quickEscape |-> p.quickEscape, escaped |-> p.escaped,
                       escapeIter |-> p.escapeIter, iters |-> p.iters,
                       writeR |-> 0, writeG |-> 0, writeB |-> 0,
                       z |-> p.z, retraceIter |-> 0]]
           /\ epochPaths' = Append(epochPaths,
                 IF Plotted(p)
                 THEN [c |-> c, steps |-> p.escapeIter,
                       R |-> w.writeR, G |-> w.writeG, B |-> w.writeB]
                 ELSE [c |-> c, steps |-> 0, R |-> 0, G |-> 0, B |-> 0])
    /\ UNCHANGED <<uniforms, hist, dispatched, hostVars>>

\* A lane runs one iteration of its retrace loop
LaneRetrace(l) ==
    /\ lanes[l].pc = "retrace"
    /\ LET ln == lanes[l]
           s == RetraceIterate([z |-> ln.z, retraceIter |-> ln.retraceIter, brk |-> FALSE],
                               hist, ln.c, ln, ln.escapeIter, uniforms)
       IN  /\ lanes' = [lanes EXCEPT ![l] =
                 [ln EXCEPT !.z = s.t.z, !.retraceIter = s.t.retraceIter,
                            !.pc = IF s.t.brk THEN "done" ELSE "retrace"]]
           /\ hist' = s.h
    /\ UNCHANGED <<uniforms, dispatched, epochPaths, hostVars>>

\* The dispatch is over when every lane has returned
DispatchDone ==
    /\ \A l \in Lanes : lanes[l].pc = "done"
    /\ lanes' = [l \in Lanes |-> IdleLane]
    /\ UNCHANGED <<uniforms, hist, dispatched, epochPaths, hostVars>>

\* gpu.compute(clearNode), ordered between simulate dispatches
KernelClear ==
    /\ \A l \in Lanes : lanes[l].pc = "idle"
    /\ hist # ClearedHist
    /\ hist' = ClearedHist
    /\ epochPaths' = << >>
    /\ UNCHANGED <<uniforms, lanes, dispatched, hostVars>>

KernelNext ==
    \/ Dispatch
    \/ \E l \in Lanes : LaneBegin(l)
    \/ \E l \in Lanes : LaneRetrace(l)
    \/ DispatchDone
    \/ KernelClear

SpecKernel == KernelInit /\ [][KernelNext]_vars

\* ------------------------------------------------------------------------
\* Host: inputs
\* ------------------------------------------------------------------------
\* pointer positions (clientX, clientY): the mesh centre and a point up right
MousePoints == {[x |-> 640, y |-> 512], [x |-> 896, y |-> 256]}
\* pointer positions of the wheel events
WheelPoints == {[x |-> 896, y |-> 256]}

\* iteration and mode settings of the control panel
IterChoices ==
    {[redIter |-> 50, greenIter |-> 500, blueIter |-> 5000, maxIterations |-> 500,
      nebulaEnabled |-> FALSE, nebulaAesthetic |-> FALSE],
     [redIter |-> 50, greenIter |-> 500, blueIter |-> 5000, maxIterations |-> 21,
      nebulaEnabled |-> FALSE, nebulaAesthetic |-> FALSE],
     [redIter |-> 50, greenIter |-> 500, blueIter |-> 5000, maxIterations |-> 500,
      nebulaEnabled |-> TRUE, nebulaAesthetic |-> FALSE]}

\* rotation slider settings (degrees)
RotChoices == {[xz |-> 0, yw |-> 0], [xz |-> 90, yw |-> 0]}

\* randoms of lane 1 of a simulate dispatch issued by a frame
HostRandoms == {R21}

\* measured milliseconds per simulate dispatch (1/TimeScale ms)
NominalPassTime == 3 * TimeScale
PassTimes == {0, 3 * TimeScale, 20 * TimeScale}

\* ------------------------------------------------------------------------
\* Host: dispatches as the single-threaded host sees them
\* ------------------------------------------------------------------------
RECURSIVE RunLanes(_, _, _, _)
\* the parameters a simulate dispatch reads: every uniform but the frame
\* counter, which only the display normalisation reads
KernelParams(u) == [u EXCEPT !.frameCount = 1]

RunLanes(rs, u, h, l) ==
    IF l > NumLanes THEN h
    ELSE RunLanes(rs, u, ComputeLane(rs[l], u, h), l + 1)

\* the randoms of the lanes of a dispatch whose lane 1 draws r
LaneSeeds(r) == [l \in Lanes |-> IF l = 1 THEN r ELSE RQuick]

\* like applyView, but without needsClearRef.current = true (for comparison)
applyViewNoFlag(v) ==
    [uniforms |-> [ViewUniforms(uniforms, v) EXCEPT !.frameCount = 1],
     needsClearRef |-> needsClearRef,
     frameCount |-> 0]
\* applyView: view uniforms, sampling box, and the invalidation
applyView(v) ==
    [uniforms |-> [ViewUniforms(uniforms, v) EXCEPT !.frameCount = 1],
     needsClearRef |-> TRUE,
     frameCount |-> 0]

\* ------------------------------------------------------------------------
\* Host: event handlers (between frames)
\* ------------------------------------------------------------------------
\* like newZoom, but without the clamp to [MIN_ZOOM, MAX_ZOOM] (for comparison)
newZoomUnclamped(zoom, deltaYPositive) ==
    IF deltaYPositive THEN (zoom * 85) \div 100 ELSE (zoom * 118) \div 100
\* t.zoom * zoomFactor, clamped
newZoom(zoom, deltaYPositive) ==
    LET scaled == IF deltaYPositive THEN (zoom * 85) \div 100
                  ELSE (zoom * 118) \div 100
    IN  Min2(MAX_ZOOM, Max2(MIN_ZOOM, scaled))

\* the zoom target a wheel event at the pointer m writes: the point under
\* the pointer stays under the pointer
WheelTarget(m, view, t, deltaYPositive) ==
    LET f == mouseToFractal(m.x, m.y, view)
        z == newZoom(t.zoom, deltaYPositive)
    IN  [centerX |-> f.fracX - ((f.mx - Scale \div 2) * 2 * HalfW(z)) \div Scale,
         centerY |-> f.fracY - ((f.my - Scale \div 2) * 2 * HalfH(z)) \div Scale,
         zoom |-> z, animating |-> TRUE]

onWheel(m, deltaYPositive) ==
    /\ pc = "idle"
    /\ events < MaxEvents
    /\ zoomTarget' = WheelTarget(m, viewRef, zoomTarget, deltaYPositive)
    /\ lastOp' = "wheel"
    /\ events' = events + 1
    /\ UNCHANGED <<kernelVars, propVars, frameVars, viewRef, dragging, lastMouse,
                   needsClearRef, frameCount, simLog>>
    /\ UNCHANGED <<orbit, orbitEnabled, simParams>>
    /\ UNCHANGED outerVars

onMouseDown(m, button) ==
    /\ pc = "idle"
    /\ events < MaxEvents
    /\ IF button = 0
       THEN dragging' = TRUE /\ lastMouse' = m
       ELSE UNCHANGED <<dragging, lastMouse>>
    /\ IF button = 0
       THEN orbit' = << >>
       ELSE UNCHANGED orbit
    /\ lastOp' = "mousedown"
    /\ events' = events + 1
    /\ UNCHANGED <<kernelVars, propVars, frameVars, viewRef, zoomTarget,
                   needsClearRef, frameCount, simLog, orbitEnabled, simParams>>
    /\ UNCHANGED outerVars

\* like onMouseMove, but with the pan applied to the view alone (for
\* comparison)
onMouseMovePansViewOnly(m) ==
    /\ pc = "idle"
    /\ events < MaxEvents
    /\ IF dragging
       THEN LET meshSize == getViewMetrics.meshSize
                panX == ((m.x - lastMouse.x) * 2 * HalfW(viewRef.zoom)) \div meshSize
                panY == ((m.y - lastMouse.y) * 2 * HalfH(viewRef.zoom)) \div meshSize
                v == [viewRef EXCEPT !.centerX = @ - panX, !.centerY = @ + panY]
                a == applyView(v)
            IN  /\ viewRef' = v
                /\ zoomTarget' = zoomTarget
                /\ lastMouse' = m
                /\ uniforms' = a.uniforms
                /\ needsClearRef' = a.needsClearRef
                /\ frameCount' = a.frameCount
                /\ orbit' = << >>
                /\ lastOp' = "pan"
       ELSE /\ IF orbitEnabled
               THEN orbit' = computeOrbit(m.x, m.y, viewRef,
                                          [red |-> props.redIter,
                                           green |-> props.greenIter,
                                           blue |-> props.blueIter],
                                          [xz |-> props.rotXZ, yw |-> props.rotYW])
               ELSE orbit' = << >>
            /\ lastOp' = "mousemove"
            /\ UNCHANGED <<viewRef, zoomTarget, lastMouse, uniforms,
                           needsClearRef, frameCount>>
    /\ events' = events + 1
    /\ UNCHANGED <<hist, lanes, dispatched, epochPaths, propVars, frameVars,
                   dragging, simLog, orbitEnabled, simParams>>
    /\ UNCHANGED outerVars

\* like onMouseMove, but the orbit branch invalidates the histogram (for comparison)
onMouseMoveInvalidates(m) ==
    /\ pc = "idle"
    /\ events < MaxEvents
    /\ IF dragging
       THEN LET meshSize == getViewMetrics.meshSize
                panX == ((m.x - lastMouse.x) * 2 * HalfW(viewRef.zoom)) \div meshSize
                panY == ((m.y - lastMouse.y) * 2 * HalfH(viewRef.zoom)) \div meshSize
                v == [viewRef EXCEPT !.centerX = @ - panX, !.centerY = @ + panY]
                a == applyView(v)
            IN  /\ viewRef' = v
                /\ zoomTarget' = [zoomTarget EXCEPT !.centerX = @ - panX,
                                                    !.centerY = @ + panY]
                /\ lastMouse' = m
                /\ uniforms' = a.uniforms
                /\ needsClearRef' = a.needsClearRef
                /\ frameCount' = a.frameCount
                /\ orbit' = << >>
                /\ lastOp' = "pan"
       ELSE /\ IF orbitEnabled
               THEN orbit' = computeOrbit(m.x, m.y, viewRef,
                                          [red |-> props.redIter,
                                           green |-> props.greenIter,
                                           blue |-> props.blueIter],
                                          [xz |-> props.rotXZ, yw |-> props.rotYW])
               ELSE orbit' = << >>
            /\ lastOp' = "mousemove"
            /\ needsClearRef' = TRUE
            /\ frameCount' = 0
            /\ UNCHANGED <<viewRef, zoomTarget, lastMouse, uniforms>>
    /\ events' = events + 1
    /\ UNCHANGED <<hist, lanes, dispatched, epochPaths, propVars, frameVars,
                   dragging, simLog, orbitEnabled, simParams>>
    /\ UNCHANGED outerVars
\* the dragging branch pans and calls applyView; the other branch touches
\* only the published orbit record
onMouseMove(m) ==
    /\ pc = "idle"
    /\ events < MaxEvents
    /\ IF dragging
       THEN LET meshSize == getViewMetrics.meshSize
                panX == ((m.x - lastMouse.x) * 2 * HalfW(viewRef.zoom)) \div meshSize
                panY == ((m.y - lastMouse.y) * 2 * HalfH(viewRef.zoom)) \div meshSize
                v == [viewRef EXCEPT !.centerX = @ - panX, !.centerY = @ + panY]
                a == applyView(v)
            IN  /\ viewRef' = v
                /\ zoomTarget' = [zoomTarget EXCEPT !.centerX = @ - panX,
                                                    !.centerY = @ + panY]
                /\ lastMouse' = m
                /\ uniforms' = a.uniforms
                /\ needsClearRef' = a.needsClearRef
                /\ frameCount' = a.frameCount
                /\ orbit' = << >>
                /\ lastOp' = "pan"
       ELSE /\ IF orbitEnabled
               THEN orbit' = computeOrbit(m.x, m.y, viewRef,
                                          [red |-> props.redIter,
                                           green |-> props.greenIter,
                                           blue |-> props.blueIter],
                                          [xz |-> props.rotXZ, yw |-> props.rotYW])
               ELSE orbit' = << >>
            /\ lastOp' = "mousemove"
            /\ UNCHANGED <<viewRef, zoomTarget, lastMouse, uniforms,
                           needsClearRef, frameCount>>
    /\ events' = events + 1
    /\ UNCHANGED <<hist, lanes, dispatched, epochPaths, propVars, frameVars,
                   dragging, simLog, orbitEnabled, simParams>>
    /\ UNCHANGED outerVars

onMouseUp ==
    /\ pc = "idle"
    /\ events < MaxEvents
    /\ dragging' = FALSE
    /\ lastOp' = "mouseup"
    /\ events' = events + 1
    /\ UNCHANGED <<kernelVars, propVars, frameVars, viewRef, zoomTarget, lastMouse,
                   needsClearRef, frameCount, simLog>>
    /\ UNCHANGED <<orbit, orbitEnabled, simParams>>
    /\ UNCHANGED outerVars

onMouseLeave ==
    /\ pc = "idle"
    /\ events < MaxEvents
    /\ orbit' = << >>
    /\ lastOp' = "mouseleave"
    /\ events' = events + 1
    /\ UNCHANGED <<kernelVars, propVars, frameVars, viewVars, needsClearRef,
                   frameCount, simLog, orbitEnabled, simParams>>
    /\ UNCHANGED outerVars

\* like handleOrbitChange, but without the reset of the record (for comparison)
handleOrbitChangeKeepsRecord(enabled) ==
    /\ pc = "idle"
    /\ events < MaxEvents
    /\ orbitEnabled' = enabled
    /\ lastOp' = "orbittoggle"
    /\ events' = events + 1
    /\ UNCHANGED <<kernelVars, propVars, frameVars, viewVars, needsClearRef,
                   frameCount, simLog, simParams, orbit>>
    /\ UNCHANGED outerVars
\* the orbit toggle of the control panel
handleOrbitChange(enabled) ==
    /\ pc = "idle"
    /\ events < MaxEvents
    /\ orbitEnabled' = enabled
    /\ orbit' = (IF enabled THEN orbit ELSE << >>)
    /\ lastOp' = "orbittoggle"
    /\ events' = events + 1
    /\ UNCHANGED <<kernelVars, propVars, frameVars, viewVars, needsClearRef,
                   frameCount, simLog, simParams>>
    /\ UNCHANGED outerVars

\* updateIter / mode toggles: re-render with new props, then the iteration
\* sync effect
IterationEffect(c) ==
    /\ pc = "idle"
    /\ events < MaxEvents
    /\ c # [redIter |-> props.redIter, greenIter |-> props.greenIter,
            blueIter |-> props.blueIter, maxIterations |-> props.maxIterations,
            nebulaEnabled |-> props.nebulaEnabled,
            nebulaAesthetic |-> props.nebulaAesthetic]
    /\ props' = [props EXCEPT !.redIter = c.redIter, !.greenIter = c.greenIter,
                              !.blueIter = c.blueIter,
                              !.maxIterations = c.maxIterations,
                              !.nebulaEnabled = c.nebulaEnabled,
                              !.nebulaAesthetic = c.nebulaAesthetic]
    /\ LET changed ==
              \/ prevIters.r # c.redIter \/ prevIters.g # c.greenIter
              \/ prevIters.b # c.blueIter \/ prevIters.max # c.maxIterations
              \/ prevIters.nebula # c.nebulaEnabled
              \/ prevIters.aesthetic # c.nebulaAesthetic
       IN  IF changed
           THEN /\ prevIters' = [r |-> c.redIter, g |-> c.greenIter, b |-> c.blueIter,
                                 max |-> c.maxIterations, nebula |-> c.nebulaEnabled,
                                 aesthetic |-> c.nebulaAesthetic]
                /\ needsClearRef' = TRUE
                /\ frameCount' = 0
                /\ uniforms' = [IterUniforms(uniforms, props') EXCEPT !.frameCount = 1]
           ELSE /\ uniforms' = IterUniforms(uniforms, props')
                /\ UNCHANGED <<prevIters, needsClearRef, frameCount>>
    /\ lastOp' = "iterations"
    /\ events' = events + 1
    /\ UNCHANGED <<hist, lanes, dispatched, epochPaths, viewVars, frameVars,
                   prevRot, simLog>>
    /\ UNCHANGED <<orbit, orbitEnabled, simParams>>
    /\ UNCHANGED outerVars

\* like RotationEffect, but without the invalidation (for comparison)
RotationEffectNoReset(c) ==
    /\ pc = "idle"
    /\ events < MaxEvents
    /\ c # [xz |-> props.rotXZ, yw |-> props.rotYW]
    /\ props' = [props EXCEPT !.rotXZ = c.xz, !.rotYW = c.yw]
    /\ prevRot' = c
    /\ uniforms' = RotUniforms(uniforms, props')
    /\ lastOp' = "rotation"
    /\ events' = events + 1
    /\ UNCHANGED <<hist, lanes, dispatched, epochPaths, viewVars, frameVars,
                   prevIters, simLog, needsClearRef, frameCount>>
    /\ UNCHANGED <<orbit, orbitEnabled, simParams>>
    /\ UNCHANGED outerVars
\* updateRot: re-render with new angles, then the rotation sync effect
RotationEffect(c) ==
    /\ pc = "idle"
    /\ events < MaxEvents
    /\ c # [xz |-> props.rotXZ, yw |-> props.rotYW]
    /\ props' = [props EXCEPT !.rotXZ = c.xz, !.rotYW = c.yw]
    /\ IF prevRot.xz # c.xz \/ prevRot.yw # c.yw
       THEN /\ prevRot' = c
            /\ needsClearRef' = TRUE
            /\ frameCount' = 0
            /\ uniforms' = [RotUniforms(uniforms, props') EXCEPT !.frameCount = 1]
       ELSE /\ uniforms' = RotUniforms(uniforms, props')
            /\ UNCHANGED <<prevRot, needsClearRef, frameCount>>
    /\ lastOp' = "rotation"
    /\ events' = events + 1
    /\ UNCHANGED <<hist, lanes, dispatched, epochPaths, viewVars, frameVars,
                   prevIters, simLog>>
    /\ UNCHANGED <<orbit, orbitEnabled, simParams>>
    /\ UNCHANGED outerVars

\* ------------------------------------------------------------------------
\* Host: the useFrame callback, step by step
\* ------------------------------------------------------------------------
\* gpu.compute is defined: the renderer of the live root can dispatch
GpuCompute == \E k \in roots : renderers[k].compute

\* the cap of the frame counter: a frame runs while the counter is below
\* the bound or the frame is going to reset it
FrameCountCapped ==
    (IF zoomTarget.animating \/ needsClearRef THEN 0 ELSE frameCount) < MaxFrameCount

\* like AnimateStep, but without the settle branch (for comparison)
AnimateStepNoSettle(v0, t) ==
    [view |-> [zoom |-> v0.zoom + Damp(t.zoom - v0.zoom),
               centerX |-> v0.centerX + Damp(t.centerX - v0.centerX),
               centerY |-> v0.centerY + Damp(t.centerY - v0.centerY)],
     settled |-> FALSE]
\* one step of the zoom animation from the view v0 toward the target t:
\* lerp, then snap to the target when close enough
AnimateStep(v0, t) ==
    LET v == [zoom |-> v0.zoom + Damp(t.zoom - v0.zoom),
              centerX |-> v0.centerX + Damp(t.centerX - v0.centerX),
              centerY |-> v0.centerY + Damp(t.centerY - v0.centerY)]
        zoomClose == Abs(v.zoom - t.zoom) < (Max2(t.zoom, 1) + 999) \div 1000
        posDiff == Abs(v.centerX - t.centerX) + Abs(v.centerY - t.centerY)
        posClose == posDiff < (Scale + 99999) \div 100000
        settled == zoomClose /\ posClose
    IN  [view |-> IF settled
                  THEN [zoom |-> t.zoom, centerX |-> t.centerX, centerY |-> t.centerY]
                  ELSE v,
         settled |-> settled]

\* smooth zoom animation: lerp, settle, applyView
FrameAnimate ==
    /\ pc = "idle"
    /\ roots # {}
    /\ FrameCountCapped
    /\ IF zoomTarget.animating
       THEN LET t == zoomTarget
                s == AnimateStep(viewRef, t)
                w == s.view
                settled == s.settled
                a == applyView(w)
            IN  /\ viewRef' = w
                /\ zoomTarget' = [t EXCEPT !.animating = ~settled]
                /\ uniforms' = a.uniforms
                /\ needsClearRef' = a.needsClearRef
                /\ frameCount' = a.frameCount
                /\ invalidAtCompute' = a.needsClearRef
                /\ lastOp' = "animate"
       ELSE /\ lastOp' = "frame"
            /\ invalidAtCompute' = needsClearRef
            /\ UNCHANGED <<viewRef, zoomTarget, uniforms, needsClearRef, frameCount>>
    /\ pc' = (IF GpuCompute THEN "compute" ELSE "render")
    /\ frameOps' = << >>
    /\ UNCHANGED <<hist, lanes, dispatched, epochPaths, propVars, dragging, lastMouse,
                   lastFrameTime, maxPasses, passes, simLog, events>>
    /\ UNCHANGED <<orbit, orbitEnabled, simParams>>
    /\ UNCHANGED outerVars

\* like FrameClear, but without needsClearRef.current = false (for comparison)
FrameClearKeepsFlag ==
    /\ pc = "compute"
    /\ IF needsClearRef
       THEN /\ hist' = ClearedHist
            /\ simLog' = << >>
            /\ frameOps' = Append(frameOps, "clear")
            /\ lastOp' = "clear"
       ELSE /\ lastOp' = "schedule"
            /\ UNCHANGED <<hist, simLog, frameOps>>
    /\ maxPasses' = maxPassesFor(lastFrameTime)
    /\ passes' = 0
    /\ pc' = "pass"
    /\ UNCHANGED <<uniforms, lanes, dispatched, epochPaths, viewVars, propVars,
                   needsClearRef, frameCount, lastFrameTime, invalidAtCompute, events>>
    /\ simParams' = (IF needsClearRef THEN {} ELSE simParams)
    /\ UNCHANGED <<orbit, orbitEnabled>>
    /\ UNCHANGED outerVars
\* if (needsClearRef.current) gpu.compute(clearNode); then the pass budget
FrameClear ==
    /\ pc = "compute"
    /\ IF needsClearRef
       THEN /\ hist' = ClearedHist
            /\ needsClearRef' = FALSE
            /\ simLog' = << >>
            /\ frameOps' = Append(frameOps, "clear")
            /\ lastOp' = "clear"
       ELSE /\ lastOp' = "schedule"
            /\ UNCHANGED <<hist, needsClearRef, simLog, frameOps>>
    /\ maxPasses' = maxPassesFor(lastFrameTime)
    /\ passes' = 0
    /\ pc' = "pass"
    /\ UNCHANGED <<uniforms, lanes, dispatched, epochPaths, viewVars, propVars,
                   frameCount, lastFrameTime, invalidAtCompute, events>>
    /\ simParams' = (IF needsClearRef THEN {} ELSE simParams)
    /\ UNCHANGED <<orbit, orbitEnabled>>
    /\ UNCHANGED outerVars

\* one iteration of the pass loop: seed.value = nextSeed(); gpu.compute(computeNode)
FramePass(r) ==
    /\ pc = "pass"
    /\ passes < maxPasses
    /\ hist' = RunLanes(LaneSeeds(r), uniforms, hist, 1)
    /\ passes' = passes + 1
    /\ simLog' = Append(simLog, r)
    /\ frameOps' = Append(frameOps, "simulate")
    /\ lastOp' = "simulate"
    /\ simParams' = simParams \cup {KernelParams(uniforms)}
    /\ UNCHANGED <<uniforms, lanes, dispatched, epochPaths, viewVars, propVars,
                   needsClearRef, frameCount, lastFrameTime, pc, maxPasses,
                   invalidAtCompute, events, orbit, orbitEnabled>>
    /\ nextSeedCalls(FrameDraw, 1)
    /\ UNCHANGED appVars

\* like FrameEnd, but frameCount.current += 1 in place of += passes (for comparison)
FrameEndCountsFrames(passMs) ==
    /\ pc = "pass"
    /\ passes >= maxPasses
    /\ lastFrameTime' = SmoothedFrameTime(lastFrameTime, passMs * passes, passes)
    /\ frameCount' = frameCount + 1
    /\ uniforms' = [uniforms EXCEPT !.frameCount = frameCount']
    /\ pc' = "render"
    /\ lastOp' = "frameEnd"
    /\ UNCHANGED <<hist, lanes, dispatched, epochPaths, viewVars, propVars,
                   needsClearRef, maxPasses, passes, simLog, frameOps,
                   invalidAtCompute, events>>
    /\ UNCHANGED <<orbit, orbitEnabled, simParams>>
    /\ UNCHANGED outerVars
\* after the loop: the smoothed estimate and frameCount
FrameEnd(passMs) ==
    /\ pc = "pass"
    /\ passes >= maxPasses
    /\ lastFrameTime' = SmoothedFrameTime(lastFrameTime, passMs * passes, passes)
    /\ frameCount' = frameCount + passes
    /\ uniforms' = [uniforms EXCEPT !.frameCount = frameCount']
    /\ pc' = "render"
    /\ lastOp' = "frameEnd"
    /\ UNCHANGED <<hist, lanes, dispatched, epochPaths, viewVars, propVars,
                   needsClearRef, maxPasses, passes, simLog, frameOps,
                   invalidAtCompute, events>>
    /\ UNCHANGED <<orbit, orbitEnabled, simParams>>
    /\ UNCHANGED outerVars

\* the material's colorNode reads the buffers and frameCountUniform
Render ==
    /\ pc = "render"
    /\ pc' = "idle"
    /\ lastOp' = "render"
    /\ UNCHANGED <<kernelVars, viewVars, propVars, needsClearRef, frameCount,
                   lastFrameTime, maxPasses, passes, simLog, frameOps,
                   invalidAtCompute, events>>
    /\ UNCHANGED <<orbit, orbitEnabled, simParams>>
    /\ UNCHANGED outerVars

\* n simulate dispatches in a row
RECURSIVE Passes(_, _, _, _)
Passes(rs, u, h, n) ==
    IF n = 0 THEN h
    ELSE Passes(rs, u, RunLanes(rs, u, h, 1), n - 1)

\* like useFrame, but without the reset of needsClearRef after the clear
\* (for comparison)
useFrameKeepsFlag(r, passMs) ==
    /\ pc = "idle"
    /\ roots # {}
    /\ FrameCountCapped
    /\ LET anim == zoomTarget.animating
           s == AnimateStep(viewRef, zoomTarget)
           a == applyView(s.view)
           u0 == IF anim THEN a.uniforms ELSE uniforms
           invalid == anim \/ needsClearRef
           fc0 == IF anim THEN 0 ELSE frameCount
           h0 == IF invalid THEN ClearedHist ELSE hist
           n == IF GpuCompute THEN maxPassesFor(lastFrameTime) ELSE 0
       IN  /\ viewRef' = (IF anim THEN s.view ELSE viewRef)
           /\ zoomTarget' = (IF anim THEN [zoomTarget EXCEPT !.animating = ~s.settled]
                             ELSE zoomTarget)
           /\ IF GpuCompute
              THEN /\ \E u \in {u0} : \E h \in {h0} :
                         hist' = Passes(LaneSeeds(r), u, h, n)
                   /\ needsClearRef' = invalid
                   /\ frameCount' = fc0 + n
                   /\ uniforms' = [u0 EXCEPT !.frameCount = fc0 + n]
                   /\ lastFrameTime' = SmoothedFrameTime(lastFrameTime, passMs * n, n)
                   /\ maxPasses' = n
                   /\ passes' = n
                   /\ simLog' = (IF invalid THEN << >> ELSE simLog)
                                    \o [i \in 1..n |-> r]
                   /\ frameOps' = (IF invalid THEN <<"clear">> ELSE << >>)
                                      \o [i \in 1..n |-> "simulate"]
                   /\ simParams' = (IF invalid THEN {} ELSE simParams)
                                       \cup {KernelParams(u0)}
              ELSE /\ needsClearRef' = invalid
                   /\ frameCount' = fc0
                   /\ uniforms' = u0
                   /\ frameOps' = << >>
                   /\ UNCHANGED <<hist, lastFrameTime, maxPasses, passes, simLog,
                                  simParams>>
           /\ invalidAtCompute' = invalid
           /\ lastOp' = (IF anim THEN "animate" ELSE "frame")
           /\ nextSeedCalls(FrameDraw, n)
    /\ pc' = "idle"
    /\ UNCHANGED <<lanes, dispatched, epochPaths, propVars, dragging, lastMouse,
                   events, orbit, orbitEnabled>>
    /\ UNCHANGED appVars

\* the whole useFrame callback as one step: animation and, where the
\* renderer has compute, clear, passes, frame time and frame counter
useFrame(r, passMs) ==
    /\ pc = "idle"
    /\ roots # {}
    /\ FrameCountCapped
    /\ LET anim == zoomTarget.animating
           s == AnimateStep(viewRef, zoomTarget)
           a == applyView(s.view)
           u0 == IF anim THEN a.uniforms ELSE uniforms
           invalid == anim \/ needsClearRef
           fc0 == IF anim THEN 0 ELSE frameCount
           h0 == IF invalid THEN ClearedHist ELSE hist
           n == IF GpuCompute THEN maxPassesFor(lastFrameTime) ELSE 0
       IN  /\ viewRef' = (IF anim THEN s.view ELSE viewRef)
           /\ zoomTarget' = (IF anim THEN [zoomTarget EXCEPT !.animating = ~s.settled]
                             ELSE zoomTarget)
           /\ IF GpuCompute
              THEN /\ \E u \in {u0} : \E h \in {h0} :
                         hist' = Passes(LaneSeeds(r), u, h, n)
                   /\ needsClearRef' = FALSE
                   /\ frameCount' = fc0 + n
                   /\ uniforms' = [u0 EXCEPT !.frameCount = fc0 + n]
                   /\ lastFrameTime' = SmoothedFrameTime(lastFrameTime, passMs * n, n)
                   /\ maxPasses' = n
                   /\ passes' = n
                   /\ simLog' = (IF invalid THEN << >> ELSE simLog)
                                    \o [i \in 1..n |-> r]
                   /\ frameOps' = (IF invalid THEN <<"clear">> ELSE << >>)
                                      \o [i \in 1..n |-> "simulate"]
                   /\ simParams' = (IF invalid THEN {} ELSE simParams)
                                       \cup {KernelParams(u0)}
              ELSE /\ needsClearRef' = invalid
                   /\ frameCount' = fc0
                   /\ uniforms' = u0
                   /\ frameOps' = << >>
                   /\ UNCHANGED <<hist, lastFrameTime, maxPasses, passes, simLog,
                                  simParams>>
           /\ invalidAtCompute' = invalid
           /\ lastOp' = (IF anim THEN "animate" ELSE "frame")
           /\ nextSeedCalls(FrameDraw, n)
    /\ pc' = "idle"
    /\ UNCHANGED <<lanes, dispatched, epochPaths, propVars, dragging, lastMouse,
                   events, orbit, orbitEnabled>>
    /\ UNCHANGED appVars

Init ==
    /\ uniforms = MountedUniforms(DefaultProps)
    /\ HostMounted(DefaultProps)
    /\ hist = ClearedHist
    /\ lanes = [l \in Lanes |-> IdleLane]
    /\ dispatched = 0
    /\ epochPaths = << >>

Next ==
    \/ \E m \in WheelPoints : \E deltaYPositive \in BOOLEAN : onWheel(m, deltaYPositive)
    \/ \E m \in MousePoints : \E button \in {0, 2} : onMouseDown(m, button)
    \/ \E m \in MousePoints : onMouseMove(m)
    \/ onMouseUp
    \/ \E c \in IterChoices : IterationEffect(c)
    \/ \E c \in RotChoices : RotationEffect(c)
    \/ FrameAnimate
    \/ FrameClear
    \/ \E r \in HostRandoms : FramePass(r)
    \/ FrameEnd(NominalPassTime)
    \/ Render

Spec == Init /\ [][Next]_vars

\* The scheduler under varying dispatch times: frames, and rotation changes
\* as the invalidation between them
NextScheduler ==
    \/ \E c \in RotChoices : RotationEffect(c)
    \/ FrameAnimate
    \/ FrameClear
    \/ FramePass(R21)
    \/ \E passMs \in PassTimes : FrameEnd(passMs)
    \/ Render

SpecScheduler == Init /\ [][NextScheduler]_vars

\* ------------------------------------------------------------------------
\* The view controller: wheel zoom about the pointer, drag pans, and the
\* zoom animation of the frame callback
\* ------------------------------------------------------------------------
\* n wheel events at the pointer m, between two frames
RECURSIVE WheelBurst(_, _, _, _, _)
WheelBurst(m, view, t, deltaYPositive, n) ==
    IF n = 0 \/ t.zoom = 0 THEN t
    ELSE LET next == WheelTarget(m, view, t, deltaYPositive)
         IN  WheelBurst(m, view, next, deltaYPositive, n - 1)

MeshCentre == [x |-> 640, y |-> 512]
MeshBottom == [x |-> 640, y |-> 1023]
DragPoints == {[x |-> 640, y |-> 0], [x |-> 640, y |-> 1023]}

\* wheel bursts before the first frame: out to the lower zoom limit, in to
\* about 10x at the centre (with the button held down) and at the bottom
\* edge, in to the upper limit
Bursts ==
    {[m |-> MeshCentre, deltaYPositive |-> TRUE, n |-> 5, dragging |-> FALSE],
     [m |-> MeshCentre, deltaYPositive |-> FALSE, n |-> 14, dragging |-> TRUE],
     [m |-> MeshBottom, deltaYPositive |-> FALSE, n |-> 14, dragging |-> FALSE],
     [m |-> MeshCentre, deltaYPositive |-> FALSE, n |-> 53, dragging |-> FALSE]}

\* pointer events explored after a burst
MaxViewEvents == 1

InitView ==
    /\ uniforms = MountedUniforms(DefaultProps)
    /\ hist = ClearedHist
    /\ lanes = [l \in Lanes |-> IdleLane]
    /\ dispatched = 0
    /\ epochPaths = << >>
    /\ \E b \in Bursts :
          /\ zoomTarget = WheelBurst(b.m, InitialView, InitialTarget,
                                     b.deltaYPositive, b.n)
          /\ viewRef = InitialView
          /\ dragging = b.dragging
          /\ lastMouse = (IF b.dragging THEN [x |-> 640, y |-> 0]
                          ELSE [x |-> 0, y |-> 0])
    /\ props = DefaultProps
    /\ prevIters = [r |-> DefaultProps.redIter, g |-> DefaultProps.greenIter,
                    b |-> DefaultProps.blueIter, max |-> DefaultProps.maxIterations,
                    nebula |-> DefaultProps.nebulaEnabled,
                    aesthetic |-> DefaultProps.nebulaAesthetic]
    /\ prevRot = [xz |-> 0, yw |-> 0]
    /\ needsClearRef = TRUE
    /\ frameCount = 0
    /\ lastFrameTime = 8 * TimeScale
    /\ pc = "idle"
    /\ maxPasses = 0
    /\ passes = 0
    /\ simLog = << >>
    /\ frameOps = << >>
    /\ invalidAtCompute = FALSE
    /\ lastOp = "wheel"
    /\ events = 0
    /\ orbit = << >>
    /\ orbitEnabled = FALSE
    /\ simParams = {}
    /\ CurbyMounted
    /\ AppMounted

NextView ==
    \/ /\ events < MaxViewEvents
       /\ \/ \E m \in WheelPoints : \E deltaYPositive \in BOOLEAN :
                onWheel(m, deltaYPositive)
          \/ \E m \in DragPoints : onMouseDown(m, 0)
          \/ \E m \in DragPoints : onMouseMove(m)
          \/ onMouseUp
    \/ useFrame(R21, 8 * TimeScale)

SpecView == InitView /\ [][NextView]_vars

\* requestAnimationFrame keeps calling the frame callback
\* requestAnimationFrame keeps calling the frame callback: weak fairness of
\* useFrame, written out.  The callback is enabled exactly when FrameEnabled
\* holds, and among the steps of NextView its steps are those that set
\* lastOp to "animate" or "frame".
FrameEnabled == pc = "idle" /\ roots # {} /\ FrameCountCapped
FrameStep == lastOp' \in {"animate", "frame"}
FairUseFrame == []<>(~FrameEnabled) \/ []<><<FrameStep>>_vars

SpecViewFair == SpecView /\ FairUseFrame

\* ------------------------------------------------------------------------
\* The orbit overlay: pointer queries, the orbit toggle, rotation changes and
\* frames, from the mounted view or from a short wheel burst
\* ------------------------------------------------------------------------
\* the mesh centre, a constant whose path the kernel plots, a pointer left
\* of the mesh, a constant that escapes at step 62 under the default view,
\* and one at the bottom edge that escapes at step 2
OrbitPoints ==
    {MeshCentre, [x |-> 672, y |-> 112], [x |-> 64, y |-> 512],
     [x |-> 544, y |-> 176], MeshBottom}

\* the green and blue sliders lowered to 50 before the first frame
LowSliders == [DefaultProps EXCEPT !.greenIter = 50, !.blueIter = 50]

\* the state before the first frame: the sliders and the wheel events so far
OrbitInits ==
    {[p |-> DefaultProps, n |-> 0], [p |-> LowSliders, n |-> 0],
     [p |-> LowSliders, n |-> 2]}

InitOrbit ==
    /\ hist = ClearedHist
    /\ lanes = [l \in Lanes |-> IdleLane]
    /\ dispatched = 0
    /\ epochPaths = << >>
    /\ viewRef = InitialView
    /\ \E i \in OrbitInits :
          /\ uniforms = MountedUniforms(i.p)
          /\ props = i.p
          /\ prevIters = [r |-> i.p.redIter, g |-> i.p.greenIter,
                          b |-> i.p.blueIter, max |-> i.p.maxIterations,
                          nebula |-> i.p.nebulaEnabled,
                          aesthetic |-> i.p.nebulaAesthetic]
          /\ zoomTarget = WheelBurst([x |-> 896, y |-> 256], InitialView,
                                     InitialTarget, FALSE, i.n)
          /\ lastOp = (IF i.n = 0 THEN "orbittoggle" ELSE "wheel")
    /\ dragging = FALSE
    /\ lastMouse = [x |-> 0, y |-> 0]
    /\ prevRot = [xz |-> 0, yw |-> 0]
    /\ needsClearRef = TRUE
    /\ frameCount = 0
    /\ lastFrameTime = 8 * TimeScale
    /\ pc = "idle"
    /\ maxPasses = 0
    /\ passes = 0
    /\ simLog = << >>
    /\ frameOps = << >>
    /\ invalidAtCompute = FALSE
    /\ events = 0
    /\ orbit = << >>
    /\ orbitEnabled = TRUE
    /\ simParams = {}
    /\ CurbyMounted
    /\ AppMounted

NextOrbit ==
    \/ \E m \in OrbitPoints : onMouseMove(m)
    \/ onMouseDown(MeshCentre, 0)
    \/ onMouseUp
    \/ onMouseLeave
    \/ \E enabled \in BOOLEAN : handleOrbitChange(enabled)
    \/ \E c \in RotChoices : RotationEffect(c)
    \/ useFrame(R21, 8 * TimeScale)

SpecOrbit == InitOrbit /\ [][NextOrbit]_vars

\* ------------------------------------------------------------------------
\* Entropy beacon: calls of initCurby and nextSeed, answers of the two
\* requests and the clock, from the mounted component on
\* ------------------------------------------------------------------------
\* the mount effect of the component: initCurby()
initCurby ==
    /\ Len(initPromises) < MaxInits
    /\ IF state.fetching THEN TRUE ELSE started < MaxFetches
    /\ initCurbyCall
    /\ UNCHANGED <<componentVars, appVars>>

\* seed.value = nextSeed(), with rnd the Math.random() draw
nextSeed(rnd) ==
    /\ state.index < MaxIndex
    /\ IF Stale(state, now) /\ ~state.fetching THEN started < MaxFetches ELSE TRUE
    /\ nextSeedCalls(rnd, 1)
    /\ UNCHANGED <<componentVars, appVars>>

\* refreshPool resumes after fetchPulse has returned or thrown: the call
\* i leaves the requests in flight and the promise of its awaiter settles
Settle(i, result) ==
    LET r == refreshPoolSettle(state, result, now)
        a == inflight[i].awaiter
    IN  /\ state' = r.state
        /\ inflight' = RemoveAt(inflight, i)
        /\ initPromises' = (IF a > 0 THEN [initPromises EXCEPT ![a] = r.promise]
                            ELSE initPromises)
        /\ finished' = <<[at |-> now, ok |-> ~result.threw /\ Len(result.seeds) > 0]>>

\* fetchPulse resumes after discoverChainCid: state.chainCid is assigned,
\* and fetchPulse throws when it is null, else it sends the pulse request
ChainsDone(i, outcome) ==
    /\ i \in 1 .. Len(inflight)
    /\ inflight[i].stage = "chains"
    /\ IF outcome = "found"
       THEN /\ state' = [state EXCEPT !.chainCid = <<"cid">>]
            /\ inflight' = [inflight EXCEPT ![i].stage = "pulse"]
            /\ UNCHANGED <<initPromises, finished>>
       ELSE /\ Settle(i, ChainError)
    /\ UNCHANGED <<now, seed, started, componentVars, appVars>>

\* fetchPulse resumes after the pulse request and returns its seeds or throws
PulseDone(i, result) ==
    /\ i \in 1 .. Len(inflight)
    /\ inflight[i].stage = "pulse"
    /\ Settle(i, result)
    /\ UNCHANGED <<now, seed, started, componentVars, appVars>>

Tick ==
    /\ now < MaxTime
    /\ now' = now + TickMs
    /\ UNCHANGED <<state, inflight, initPromises, seed, started, finished,
                   componentVars, appVars>>

NextCurby ==
    \/ initCurby
    \/ \E rnd \in FallbackDraws : nextSeed(rnd)
    \/ \E i \in 1 .. MaxFetches : \E outcome \in ChainOutcomes : ChainsDone(i, outcome)
    \/ \E i \in 1 .. MaxFetches : \E result \in PulseOutcomes : PulseDone(i, result)
    \/ Tick

SpecCurby == Init /\ [][NextCurby]_vars

\* ------------------------------------------------------------------------
\* The renderer lifecycle effect of App: runs of the effect, the settling
\* of the renderer initialisation, the cleanup, and frames while a root is
\* mounted.  navigator.gpu, the outcome of gpuRenderer.init() and the
\* presence of gl.compute are inputs.
\* ------------------------------------------------------------------------
\* runs of the effect (mount, and remount after a cleanup)
MaxMounts == 2

\* the Buddhabrot component mounts: fresh refs, buffers and uniforms
ComponentMounts ==
    /\ uniforms' = MountedUniforms(props)
    /\ hist' = ClearedHist
    /\ lanes' = [l \in Lanes |-> IdleLane]
    /\ dispatched' = 0
    /\ epochPaths' = << >>
    /\ viewRef' = InitialView
    /\ zoomTarget' = InitialTarget
    /\ dragging' = FALSE
    /\ lastMouse' = [x |-> 0, y |-> 0]
    /\ prevIters' = [r |-> props.redIter, g |-> props.greenIter,
                     b |-> props.blueIter, max |-> props.maxIterations,
                     nebula |-> props.nebulaEnabled,
                     aesthetic |-> props.nebulaAesthetic]
    /\ prevRot' = [xz |-> 0, yw |-> 0]
    /\ needsClearRef' = TRUE
    /\ frameCount' = 0
    /\ lastFrameTime' = 8 * TimeScale
    /\ pc' = "idle"
    /\ maxPasses' = 0
    /\ passes' = 0
    /\ simLog' = << >>
    /\ frameOps' = << >>
    /\ invalidAtCompute' = FALSE
    /\ lastOp' = "mount"
    /\ simParams' = {}
    /\ UNCHANGED <<props, events, orbit, orbitEnabled>>

\* the effect runs: without navigator.gpu it reports the error and returns
\* no cleanup; else start() creates canvas and renderer and awaits init()
AppEffect ==
    /\ Len(effects) < MaxMounts
    /\ \A k \in 1 .. Len(effects) : ~effects[k].live
    /\ IF ~navigatorGpu
       THEN /\ gpuError' = TRUE
            /\ effects' = Append(effects,
                                 [live |-> TRUE, cancelled |-> FALSE, init |-> "none",
                                  renderer |-> FALSE, root |-> FALSE,
                                  handleResize |-> FALSE])
            /\ renderers' = Append(renderers, [status |-> "none", compute |-> FALSE])
       ELSE /\ effects' = Append(effects,
                                 [live |-> TRUE, cancelled |-> FALSE,
                                  init |-> "pending", renderer |-> FALSE,
                                  root |-> FALSE, handleResize |-> FALSE])
            /\ renderers' = Append(renderers, [status |-> "live", compute |-> FALSE])
            /\ UNCHANGED gpuError
    /\ UNCHANGED <<navigatorGpu, canvases, listeners, roots, updateHook,
                   componentVars, curbyVars>>

\* like InitResolves, but without the test of cancelled (for comparison)
InitResolvesIgnoresCancel(k, compute) ==
    /\ k \in 1 .. Len(effects)
    /\ effects[k].init = "pending"
    /\ effects' = [effects EXCEPT ![k].init = "resolved", ![k].renderer = TRUE,
                                  ![k].root = TRUE, ![k].handleResize = TRUE]
    /\ renderers' = [renderers EXCEPT ![k].compute = compute]
    /\ canvases' = canvases \cup {k}
    /\ roots' = roots \cup {k}
    /\ updateHook' = k
    /\ listeners' = listeners \cup {k}
    /\ ComponentMounts
    /\ initCurbyCall
    /\ UNCHANGED <<navigatorGpu, gpuError>>
\* start() resumes after createWebGPURenderer(): a cancelled run disposes
\* of the renderer; else the canvas is appended, the root created and
\* configured, the update hook set, the component rendered (it mounts and
\* calls initCurby), and the resize listener added
InitResolves(k, compute) ==
    /\ k \in 1 .. Len(effects)
    /\ effects[k].init = "pending"
    /\ IF effects[k].cancelled
       THEN /\ effects' = [effects EXCEPT ![k].init = "resolved"]
            /\ renderers' = [renderers EXCEPT ![k].status = "disposed",
                                              ![k].compute = compute]
            /\ UNCHANGED <<canvases, listeners, roots, updateHook,
                           componentVars, curbyVars>>
       ELSE /\ effects' = [effects EXCEPT ![k].init = "resolved",
                                          ![k].renderer = TRUE, ![k].root = TRUE,
                                          ![k].handleResize = TRUE]
            /\ renderers' = [renderers EXCEPT ![k].compute = compute]
            /\ canvases' = canvases \cup {k}
            /\ roots' = roots \cup {k}
            /\ updateHook' = k
            /\ listeners' = listeners \cup {k}
            /\ ComponentMounts
            /\ initCurbyCall
    /\ UNCHANGED <<navigatorGpu, gpuError>>

\* gpuRenderer.init() rejects: createWebGPURenderer and start() reject, and
\* nothing handles the rejection
InitRejects(k) ==
    /\ k \in 1 .. Len(effects)
    /\ effects[k].init = "pending"
    /\ effects' = [effects EXCEPT ![k].init = "rejected"]
    /\ UNCHANGED <<navigatorGpu, gpuError, renderers, canvases, listeners,
                   roots, updateHook, componentVars, curbyVars>>

\* the cleanup the effect returned (none when navigator.gpu is missing)
AppCleanup ==
    /\ pc = "idle"
    /\ \E k \in 1 .. Len(effects) :
          /\ effects[k].live
          /\ IF effects[k].init = "none"
             THEN /\ effects' = [effects EXCEPT ![k].live = FALSE]
                  /\ UNCHANGED <<renderers, canvases, listeners, roots,
                                 updateHook, orbit>>
             ELSE /\ effects' = [effects EXCEPT ![k].live = FALSE,
                                                ![k].cancelled = TRUE]
                  /\ listeners' = (IF effects[k].handleResize
                                   THEN listeners \ {k} ELSE listeners)
                  /\ updateHook' = 0
                  /\ orbit' = << >>
                  /\ roots' = (IF effects[k].root THEN roots \ {k} ELSE roots)
                  /\ renderers' = (IF effects[k].renderer
                                   THEN [renderers EXCEPT ![k].status = "disposed"]
                                   ELSE renderers)
                  /\ canvases' = {}
    /\ UNCHANGED <<navigatorGpu, gpuError, curbyVars>>
    /\ UNCHANGED <<uniforms, hist, lanes, dispatched, epochPaths, viewVars,
                   propVars, needsClearRef, frameCount, frameVars, simLog,
                   lastOp, events, orbitEnabled, simParams>>

\* the page before the effect has run: nothing is installed, the beacon
\* module is loaded.  The variables of the component hold the values its
\* mount gives them.
InitApp ==
    /\ uniforms = MountedUniforms(DefaultProps)
    /\ ComponentMounted(DefaultProps)
    /\ hist = ClearedHist
    /\ lanes = [l \in Lanes |-> IdleLane]
    /\ dispatched = 0
    /\ epochPaths = << >>
    /\ state = InitialState
    /\ now = StartTime
    /\ inflight = << >>
    /\ initPromises = << >>
    /\ seed = 0
    /\ started = 0
    /\ finished = << >>
    /\ navigatorGpu \in BOOLEAN
    /\ gpuError = FALSE
    /\ effects = << >>
    /\ renderers = << >>
    /\ canvases = {}
    /\ listeners = {}
    /\ roots = {}
    /\ updateHook = 0

NextApp ==
    \/ AppEffect
    \/ \E k \in 1 .. MaxMounts : \E compute \in BOOLEAN : InitResolves(k, compute)
    \/ \E k \in 1 .. MaxMounts : InitRejects(k)
    \/ AppCleanup
    \/ useFrame(R21, 8 * TimeScale)

SpecApp == InitApp /\ [][NextApp]_vars

\* ------------------------------------------------------------------------
\* The control panel: one slider or one toggle per event
\* ------------------------------------------------------------------------
\* iteration counts the logarithmic sliders can deliver (ITER_MIN .. ITER_MAX)
SliderValues == {5, 21, 50, 500, 5000, 50000}

IterSettings(p) ==
    [redIter |-> p.redIter, greenIter |-> p.greenIter, blueIter |-> p.blueIter,
     maxIterations |-> p.maxIterations, nebulaEnabled |-> p.nebulaEnabled,
     nebulaAesthetic |-> p.nebulaAesthetic]

updateIter(channel, value) ==
    IterationEffect(
        CASE channel = "r" -> [IterSettings(props) EXCEPT !.redIter = value]
          [] channel = "g" -> [IterSettings(props) EXCEPT !.greenIter = value]
          [] channel = "b" -> [IterSettings(props) EXCEPT !.blueIter = value]
          [] OTHER -> [IterSettings(props) EXCEPT !.maxIterations = value])

handleNebulaChange(enabled) ==
    IterationEffect([IterSettings(props) EXCEPT !.nebulaEnabled = enabled])

handleAestheticChange(enabled) ==
    IterationEffect([IterSettings(props) EXCEPT !.nebulaAesthetic = enabled])

NextControls ==
    \/ \E channel \in {"r", "g", "b", "max"} : \E value \in SliderValues :
          updateIter(channel, value)
    \/ \E enabled \in BOOLEAN : handleNebulaChange(enabled)
    \/ \E enabled \in BOOLEAN : handleAestheticChange(enabled)

SpecControls == Init /\ [][NextControls]_vars

\* ------------------------------------------------------------------------
\* Properties of the parameters
\* ------------------------------------------------------------------------
\* C11: the threshold uniforms are, in classic mode, all maxIterations; in
\* Nebulabrot mode, each the smaller of its slider and maxIterations; in
\* Nebulabrot-aesthetic mode (which takes precedence), each its slider; and
\* maxAll is the largest of the three.
C11_EffectiveThresholds ==
    LET p == props
        capped(v) == IF v <= p.maxIterations THEN v ELSE p.maxIterations
        u == uniforms
    IN  /\ p.nebulaAesthetic =>
              u.redIter = p.redIter /\ u.greenIter = p.greenIter
              /\ u.blueIter = p.blueIter
        /\ (~p.nebulaAesthetic /\ p.nebulaEnabled) =>
              u.redIter = capped(p.redIter) /\ u.greenIter = capped(p.greenIter)
              /\ u.blueIter = capped(p.blueIter)
        /\ (~p.nebulaAesthetic /\ ~p.nebulaEnabled) =>
              u.redIter = p.maxIterations /\ u.greenIter = p.maxIterations
              /\ u.blueIter = p.maxIterations
        /\ u.maxAllIter \in {u.redIter, u.greenIter, u.blueIter}
        /\ u.maxAllIter >= u.redIter /\ u.maxAllIter >= u.greenIter
        /\ u.maxAllIter >= u.blueIter

\* Nebulabrot mode was switched on and a slider moved: one channel keeps its
\* slider, another is capped by maxIterations
C11_Witness ==
    /\ lastOp = "iterations"
    /\ events = 2
    /\ props.nebulaEnabled /\ ~props.nebulaAesthetic
    /\ props.redIter < props.maxIterations
    /\ props.blueIter > props.maxIterations
    /\ uniforms.redIter = props.redIter
    /\ uniforms.blueIter = props.maxIterations
    /\ uniforms.maxAllIter = props.maxIterations

\* C12: every step that changes the view, a rotation angle, an iteration
\* slider, a mode toggle or a kernel parameter leaves the histogram marked
\* invalid, frameCount at 0 and the frame counter uniform at 1; and at every
\* display read all simulate dispatches since the last clear ran under the
\* current kernel parameters
ParameterChange ==
    \/ viewRef' # viewRef
    \/ props'.rotXZ # props.rotXZ \/ props'.rotYW # props.rotYW
    \/ IterSettings(props') # IterSettings(props)
    \/ KernelParams(uniforms') # KernelParams(uniforms)

C12_ChangeInvalidates ==
    /\ [](pc = "render" => simParams \subseteq {KernelParams(uniforms)})
    /\ [][ParameterChange =>
             needsClearRef' /\ frameCount' = 0 /\ uniforms'.frameCount = 1]_vars

C12_Witness ==
    /\ pc = "render"
    /\ events = MaxEvents
    /\ frameCount > 0
    /\ simParams = {KernelParams(uniforms)}
    /\ uniforms.rotCosXZ = 0
    /\ viewRef # InitialView

\* C13: in every reachable state the zoom of the view and the zoom of the
\* zoom target lie in [MIN_ZOOM, MAX_ZOOM]
C13_ZoomInRange ==
    /\ MIN_ZOOM <= viewRef.zoom /\ viewRef.zoom <= MAX_ZOOM
    /\ MIN_ZOOM <= zoomTarget.zoom /\ zoomTarget.zoom <= MAX_ZOOM

C13_Witness ==
    /\ lastOp = "wheel"
    /\ events > 0
    /\ zoomTarget.zoom = MAX_ZOOM
    /\ viewRef.zoom = MAX_ZOOM
    /\ ~dragging

\* C14: an animating view controller eventually settles, with the view
\* exactly equal to the target; until then every frame brings the view
\* closer to the target, by the damped share of the remaining distance
ViewAtTarget ==
    /\ viewRef.zoom = zoomTarget.zoom
    /\ viewRef.centerX = zoomTarget.centerX
    /\ viewRef.centerY = zoomTarget.centerY

ViewDistance(v, t) ==
    Abs(t.zoom - v.zoom) + Abs(t.centerX - v.centerX) + Abs(t.centerY - v.centerY)

C14_AnimationSettles ==
    /\ zoomTarget.animating ~> (~zoomTarget.animating /\ ViewAtTarget)
    /\ [][zoomTarget.animating /\ lastOp' = "animate" =>
             /\ ~zoomTarget'.animating => ViewAtTarget'
             /\ zoomTarget'.animating =>
                   /\ viewRef'.zoom = viewRef.zoom + Damp(zoomTarget.zoom - viewRef.zoom)
                   /\ ViewDistance(viewRef', zoomTarget') < ViewDistance(viewRef, zoomTarget)]_vars

C14_Witness ==
    /\ lastOp = "animate"
    /\ ~zoomTarget.animating
    /\ events = 0
    /\ zoomTarget.zoom > 10 * ZoomScale
    /\ zoomTarget.zoom < 11 * ZoomScale
    /\ ViewAtTarget

\* C15: the importance-sampling box lies inside the global sampling region
\* (cx in [-2.5, 1], cy in [-1.5, 1.5]), and so does every constant the
\* local branch of the sampler draws from it
InRegion(c) ==
    /\ -((5 * Scale) \div 2) <= c.x /\ c.x <= Scale
    /\ -((3 * Scale) \div 2) <= c.y /\ c.y <= (3 * Scale) \div 2

BoxInRegion(u) ==
    /\ u.sampleMinCx <= u.sampleMaxCx
    /\ u.sampleMinCy <= u.sampleMaxCy
    /\ InRegion([x |-> u.sampleMinCx, y |-> u.sampleMinCy])
    /\ InRegion([x |-> u.sampleMaxCx, y |-> u.sampleMaxCy])

\* randoms of the local branch (r3 = 0) at the ends and the middle of the box
BoxRandoms ==
    {[r1 |-> a, r2 |-> b, r3 |-> 0] : a \in {0, RScale \div 2, RScale - 1},
                                      b \in {0, RScale \div 2, RScale - 1}}

LocalBranch(r, u) == (r.r3 * Scale) \div RScale < importanceFraction(u.zoom)

C15_Original ==
    /\ BoxInRegion(uniforms)
    /\ \A r \in BoxRandoms :
          LocalBranch(r, uniforms) => InRegion(importanceSampler(r, uniforms))

\* a wheel zoom at the bottom edge of the mesh, where the real part of the
\* constant under the pointer is 1.75: the box is inverted and the local
\* branch draws constants with cx > 1
C15_Witness ==
    /\ lastOp = "animate"
    /\ events = 0
    /\ uniforms.zoom > 7 * ZoomScale
    /\ uniforms.sampleMinCx > uniforms.sampleMaxCx
    /\ \E r \in BoxRandoms :
          /\ LocalBranch(r, uniforms)
          /\ importanceSampler(r, uniforms).x > Scale

\* C16: at the zoom the kernel reads, the local-sampling fraction is
\* clamp(1 - 1/zoom, 0, 0.85): 0 up to zoom 1, never above 0.85, and every
\* lane whose r3 is 0.85 or more samples the global region
FractionCap == (85 * Scale) \div 100

GlobalRandoms ==
    {[r1 |-> RScale \div 2, r2 |-> RScale \div 4, r3 |-> c] :
        c \in {(85 * RScale) \div 100 + 1, (9 * RScale) \div 10, RScale - 1}}

GlobalSample(r) ==
    [x |-> (r.r1 * ((7 * Scale) \div 2)) \div RScale - (5 * Scale) \div 2,
     y |-> (r.r2 * (3 * Scale)) \div RScale - (3 * Scale) \div 2]

C16_LocalFraction ==
    LET zoom == uniforms.zoom
        f == importanceFraction(zoom)
    IN  /\ zoom = viewRef.zoom
        /\ zoom <= ZoomScale => f = 0
        /\ zoom > ZoomScale =>
              f = Min2(Scale - (Scale * ZoomScale) \div zoom, FractionCap)
        /\ 0 <= f /\ f <= FractionCap
        /\ \A r \in GlobalRandoms :
              /\ ~LocalBranch(r, uniforms)
              /\ importanceSampler(r, uniforms) = GlobalSample(r)

C16_Witness ==
    /\ lastOp = "animate"
    /\ uniforms.zoom > 7 * ZoomScale
    /\ importanceFraction(uniforms.zoom) = FractionCap
    /\ Scale - (Scale * ZoomScale) \div uniforms.zoom > FractionCap
    /\ uniforms.sampleMinCx < uniforms.sampleMaxCx

\* C27: in every reachable state in which the zoom target is not animating
\* the view equals the target in centerX, centerY and zoom; a pan step shifts
\* the view and the target by the same offset and leaves zoom and animating
\* alone, so it keeps the equality and, during an animation, the remaining
\* distance to the target
C27_ViewTracksTarget ==
    /\ [](~zoomTarget.animating => ViewAtTarget)
    /\ [][lastOp' = "pan" =>
            /\ zoomTarget'.centerX - zoomTarget.centerX
                  = viewRef'.centerX - viewRef.centerX
            /\ zoomTarget'.centerY - zoomTarget.centerY
                  = viewRef'.centerY - viewRef.centerY
            /\ zoomTarget'.zoom = zoomTarget.zoom
            /\ viewRef'.zoom = viewRef.zoom
            /\ zoomTarget'.animating = zoomTarget.animating
            /\ ViewDistance(viewRef', zoomTarget') = ViewDistance(viewRef, zoomTarget)
            /\ (ViewAtTarget => ViewAtTarget')]_vars

\* a pan step has moved a settled view away from the centre the animation
\* had reached, and the target with it
C27_Witness ==
    /\ lastOp = "pan"
    /\ ~zoomTarget.animating
    /\ ViewAtTarget
    /\ viewRef.zoom # InitialView.zoom
    /\ viewRef.centerY # 0

\* a pan step has moved the view during an animation
C27_PanWhileAnimating ==
    /\ lastOp = "pan"
    /\ zoomTarget.animating
    /\ ~ViewAtTarget
    /\ viewRef # InitialView

\* C30: a frame that follows a frame with no event or parameter change in
\* between, with the view settled and the renderer able to compute, issues
\* no clear dispatch, issues N >= 1 simulate dispatches and raises
\* frameCount (and the normalization uniform) by N
C30_SettledFrameAccumulates ==
    [][(/\ lastOp \in {"frame", "animate"}
        /\ ~zoomTarget.animating
        /\ GpuCompute
        /\ lastOp' = "frame") =>
            /\ \A i \in 1..Len(frameOps') : frameOps'[i] = "simulate"
            /\ Len(frameOps') = passes'
            /\ passes' >= 1
            /\ frameCount' = frameCount + passes'
            /\ uniforms'.frameCount = frameCount'
            /\ ~needsClearRef']_vars

\* the second of two frames in a row on a view the animation has settled
\* away from the default: no clear, and the counter holds both frames' passes
C30_Witness ==
    /\ lastOp = "frame"
    /\ GpuCompute
    /\ ~zoomTarget.animating
    /\ ViewAtTarget /\ viewRef # InitialView
    /\ passes >= 1
    /\ frameOps = [i \in 1..passes |-> "simulate"]
    /\ frameCount >= 2 * passes

\* C17: for the constant of a fresh orbit record that the kernel plots, and
\* every step k both perform, the point the tracer records for step k is
\* the point the kernel's retrace projects for step k
ScreenPoint(p) ==
    [x |-> getViewMetrics.meshLeft + (p.ux * getViewMetrics.meshSize) \div Scale,
     y |-> ((Scale - p.uy) * getViewMetrics.meshSize) \div Scale]

\* the screen points of the first n retrace steps of the kernel for c
RECURSIVE KernelTrace(_, _, _, _, _)
KernelTrace(z, c, u, n, acc) ==
    IF n = 0 THEN acc
    ELSE LET nz == ZStep(z, c)
             pt == ScreenPoint(juddhabrot(nz, c, SamplerArgs(u)))
         IN  IF pt.x = pt.x
             THEN KernelTrace(nz, c, u, n - 1, Append(acc, pt))
             ELSE acc

FreshOrbit == orbit # << >> /\ lastOp = "mousemove"

OrbitC == [x |-> orbit[1].cx, y |-> orbit[1].cy]

CommonSteps ==
    Min2(Len(orbit[1].points), Pass1(OrbitC, uniforms).escapeIter)

C17_Original ==
    FreshOrbit /\ Plotted(Pass1(OrbitC, uniforms)) =>
        LET kernel == KernelTrace(ZeroZ, OrbitC, uniforms, CommonSteps, << >>)
        IN  \A k \in 1..CommonSteps : orbit[1].points[k] = kernel[k]

\* at the default view and zero rotation the kernel plots the constant under
\* the pointer (672, 112), and the two first points differ
C17_Witness ==
    /\ FreshOrbit
    /\ viewRef = InitialView
    /\ props.rotXZ = 0 /\ props.rotYW = 0
    /\ Plotted(Pass1(OrbitC, uniforms))
    /\ CommonSteps > MIN_ITERATIONS
    /\ orbit[1].points[1].x = 672
    /\ KernelTrace(ZeroZ, OrbitC, uniforms, 1, << >>)[1].x # 672

\* C18: the constant of a fresh orbit record is the image of the pointer
\* under mouseToFractal; at zero rotation the first recorded point is the
\* pointer position (to the pixel next to it, the resolution of the fixed
\* point arithmetic); the pointer at the centre of the default view gives
\* C = (0, 0) and a record with escaped = FALSE
PointerOf(m) ==
    LET f == mouseToFractal(m.x, m.y, viewRef)
    IN  orbit[1].cx = -f.fracY /\ orbit[1].cy = f.fracX

C18_PointerRoundTrip ==
    FreshOrbit =>
        \E m \in OrbitPoints :
            /\ PointerOf(m)
            /\ props.rotXZ = 0 /\ props.rotYW = 0 =>
                  /\ Abs(orbit[1].points[1].x - m.x) <= 1
                  /\ Abs(orbit[1].points[1].y - m.y) <= 1
            /\ m = MeshCentre /\ viewRef = InitialView =>
                  /\ orbit[1].cx = 0 /\ orbit[1].cy = 0
                  /\ ~orbit[1].escaped

C18_Witness ==
    /\ FreshOrbit
    /\ viewRef = InitialView
    /\ props.rotXZ = 0 /\ props.rotYW = 0
    /\ orbit[1].cx = 0 /\ orbit[1].cy = 0
    /\ ~orbit[1].escaped
    /\ orbit[1].escapeIter = DISPLAY_LIMIT
    /\ orbit[1].points[1] = MeshCentre

\* C19: the published record is null whenever orbit tracking is disabled,
\* and a pointer move outside the mesh leaves it null
OutsideMesh(m) ==
    LET f == mouseToFractal(m.x, m.y, viewRef)
    IN  f.mx < 0 \/ f.mx > Scale \/ f.my < 0 \/ f.my > Scale

QueryResult(m) ==
    computeOrbit(m.x, m.y, viewRef,
                 [red |-> props.redIter, green |-> props.greenIter,
                  blue |-> props.blueIter],
                 [xz |-> props.rotXZ, yw |-> props.rotYW])

C20_QueryFrame ==
    [][lastOp' \in {"mousemove", "orbittoggle"} =>
          /\ UNCHANGED <<hist, needsClearRef, frameCount, uniforms, viewRef,
                         zoomTarget>>
          /\ lastOp' = "mousemove" /\ orbitEnabled =>
                \E m \in OrbitPoints :
                    /\ OutsideMesh(m) <=> orbit' = << >>
                    /\ orbit' = QueryResult(m)]_vars

C20_Witness ==
    /\ FreshOrbit
    /\ events = MaxEvents
    /\ frameCount > 0
    /\ ~needsClearRef
    /\ hist # ClearedHist
    /\ orbit[1].escaped

\* C24 as claimed: the record of a fresh query has escaped = TRUE with
\* escapeIter = k exactly when pass 1 of the kernel, for the constant of the
\* record under the current uniforms, plots the path with escapeIter = k,
\* and escaped = FALSE exactly when the kernel discards the path
C24_Original ==
    FreshOrbit =>
        LET p == Pass1(OrbitC, uniforms)
        IN  /\ orbit[1].escaped <=> Plotted(p)
            /\ orbit[1].escaped => orbit[1].escapeIter = p.escapeIter

\* the limit of the tracer's loop for the sliders stored in the record
DisplayLimit ==
    Min2(Max3(orbit[1].redIter, orbit[1].greenIter, orbit[1].blueIter),
         DISPLAY_LIMIT)

\* C24, the part that holds: the two verdicts agree on the constants the
\* kernel does not quick-reject, within both limits.  A path the kernel plots with
\* escapeIter = k <= displayLimit gives a record with escaped = TRUE and
\* escapeIter = k; a record with escaped = TRUE and MIN_ITERATIONS < k <=
\* maxAll is of a path the kernel plots with escapeIter = k; a record with
\* escaped = TRUE and k <= MIN_ITERATIONS is of a path the kernel quick-
\* rejects; a record with escaped = FALSE has escapeIter = displayLimit, and
\* the kernel plots its path only with an escapeIter above displayLimit
C24_EscapeVerdict ==
    FreshOrbit =>
        LET p == Pass1(OrbitC, uniforms)
            o == orbit[1]
        IN  /\ Plotted(p) /\ p.escapeIter <= DisplayLimit =>
                  o.escaped /\ o.escapeIter = p.escapeIter
            /\ o.escaped /\ o.escapeIter > MIN_ITERATIONS
                  /\ o.escapeIter <= Min2(uniforms.maxAllIter, COMPILE_MAX_ITERATIONS) =>
                  Plotted(p) /\ p.escapeIter = o.escapeIter
            /\ o.escaped /\ o.escapeIter <= MIN_ITERATIONS =>
                  p.quickEscape = 1 /\ ~Plotted(p)
            /\ ~o.escaped =>
                  /\ o.escapeIter = DisplayLimit
                  /\ Plotted(p) => p.escapeIter > DisplayLimit

\* a record with escaped = FALSE, traced to the limit of its sliders, of a
\* constant whose path the kernel plots under the effective limits
C24_Witness ==
    /\ FreshOrbit
    /\ ~orbit[1].escaped
    /\ orbit[1].escapeIter = DisplayLimit
    /\ Plotted(Pass1(OrbitC, uniforms))
    /\ Pass1(OrbitC, uniforms).escapeIter > DisplayLimit

\* the published record is the one computeOrbit gives for some pointer
\* position under the current view, rotation and sliders
RecordOfCurrent ==
    \E m \in OrbitPoints :
        LET f == mouseToFractal(m.x, m.y, viewRef)
        IN  /\ orbit[1].cx = -f.fracY
            /\ orbit[1].cy = f.fracX
            /\ orbit = computeOrbit(m.x, m.y, viewRef,
                                    [red |-> props.redIter,
                                     green |-> props.greenIter,
                                     blue |-> props.blueIter],
                                    [xz |-> props.rotXZ, yw |-> props.rotYW])

\* C28 as stated: whenever the published record is non-null it is the record
\* of the current view, rotation angles and sliders, every change of these
\* since the query having discarded or replaced it
C28_Original == orbit # << >> => RecordOfCurrent

\* C28, the part that holds: the record is current right after the query,
\* and a pan step or a press of the button discards it
C28_CurrentAfterQuery ==
    /\ FreshOrbit => RecordOfCurrent
    /\ lastOp \in {"pan", "mousedown", "mouseleave"} => orbit = << >>

\* a zoom-animation step of a frame has changed the view and the record of
\* the earlier query is still published
C28_Witness ==
    /\ orbit # << >>
    /\ lastOp = "animate"
    /\ viewRef # InitialView
    /\ ~RecordOfCurrent
    /\ \E m \in OrbitPoints :
          orbit = computeOrbit(m.x, m.y, InitialView,
                               [red |-> props.redIter,
                                green |-> props.greenIter,
                                blue |-> props.blueIter],
                               [xz |-> props.rotXZ, yw |-> props.rotYW])

\* ------------------------------------------------------------------------
\* Properties of the rotation projector
\* ------------------------------------------------------------------------
\* values of Z and of C on and off the axes, inside and outside the view
ProbePoints ==
    {[x |-> 0, y |-> 0], [x |-> Scale \div 2, y |-> -(Scale \div 4)],
     [x |-> -1400, y |-> 96], [x |-> 300, y |-> 3000], [x |-> -(2 * Scale), y |-> 1]}

\* the plain 2D projection of Z alone: fracX = Z_imag, fracY = -Z_real,
\* mapped to normalised coordinates by a view of the given centre and
\* half-extents
PlainProjection(z, centerX, centerY, halfW, halfH) ==
    LET fracX == z.y
        fracY == -z.x
    IN  IF halfW > 0 /\ halfH > 0
        THEN [ux |-> ((fracX - centerX) * Scale) \div (halfW * 2) + Scale \div 2,
              uy |-> ((fracY - centerY) * Scale) \div (halfH * 2) + Scale \div 2]
        ELSE [ux |-> -1, uy |-> -1]

ZeroRotation == props.rotXZ = 0 /\ props.rotYW = 0

\* C21: while both rotation angles are 0, the kernel's projector and the
\* orbit tracer's projector give, for every Z and every C, the plain 2D
\* projection of Z alone (fracX = Z_imag, fracY = -Z_real)
C21_ZeroRotationIsPlain ==
    ZeroRotation =>
        \A z \in ProbePoints : \A c \in ProbePoints :
            /\ LET k == SamplerArgs(uniforms)
               IN  juddhabrot(z, c, k) =
                      PlainProjection(z, k.viewCenterX, k.viewCenterY,
                                      k.viewHalfW, k.viewHalfH)
            /\ OrbitProject(z, c, viewRef, [xz |-> props.rotXZ, yw |-> props.rotYW]) =
                  ScreenPoint(PlainProjection(z, viewRef.centerX, viewRef.centerY,
                                              HalfW(viewRef.zoom), HalfH(viewRef.zoom)))

\* the angles are back at 0 after a rotation by 90 degrees, the view has
\* moved, and a probe with C # 0 lands inside the viewport
C21_Witness ==
    /\ ZeroRotation
    /\ lastOp = "rotation"
    /\ prevRot = [xz |-> 0, yw |-> 0]
    /\ events = MaxEvents
    /\ viewRef # InitialView
    /\ \E z \in ProbePoints : \E c \in ProbePoints :
          /\ c.x # 0 /\ c.y # 0 /\ z # c
          /\ InViewport(juddhabrot(z, c, SamplerArgs(uniforms)))

\* ------------------------------------------------------------------------
\* Properties of the entropy beacon
\* ------------------------------------------------------------------------
\* C22: whatever the requests come to, no promise of initCurby is rejected,
\* each is resolved once no request is in flight, the value of every call
\* of nextSeed is in [0, 1), and it is the fallback draw while the pool is
\* not ready
C22_FallbackNeverFails ==
    /\ [](/\ \A k \in 1 .. Len(initPromises) : initPromises[k] # "rejected"
          /\ inflight = << >> =>
                \A k \in 1 .. Len(initPromises) : initPromises[k] = "resolved"
          /\ seed >= 0 /\ seed < SeedScale)
    /\ [][\A rnd \in FallbackDraws :
             nextSeed(rnd) /\ ~state.ready => seed' = rnd]_vars

\* the first refresh has failed, initCurby has resolved, and nextSeed has
\* returned a fallback draw since
C22_Witness ==
    /\ finished # << >>
    /\ ~finished[1].ok
    /\ ~state.ready
    /\ initPromises = <<"resolved">>
    /\ seed = 993

\* a call of nextSeed that starts a fetch
SeedCallStartsFetch ==
    /\ \E rnd \in FallbackDraws : nextSeed(rnd)
    /\ started' > started

\* C25 as claimed: once a refresh attempt has finished, with seeds or with
\* an error, nextSeed starts no fetch until more than REFRESH_INTERVAL has
\* passed since
C25_Original ==
    [][SeedCallStartsFetch /\ finished # << >> =>
          now - finished[1].at > REFRESH_INTERVAL]_vars

\* what the stale check does ensure: nextSeed starts a fetch only when more
\* than REFRESH_INTERVAL has passed since the last refresh that stored seeds
C25_AfterStoredSeeds ==
    [][SeedCallStartsFetch => now - state.lastFetch > REFRESH_INTERVAL]_vars

\* a refresh has failed, and a call of nextSeed at the same reading of the
\* clock has started the next fetch
C25_Witness ==
    /\ finished # << >>
    /\ ~finished[1].ok
    /\ finished[1].at = now
    /\ started = 2
    /\ Len(inflight) = 1
    /\ inflight[1].awaiter = 0

\* C29: at most one call of refreshPool is suspended in fetchPulse; the
\* fetching flag is up exactly while one is, so it is lowered whenever a
\* fetch returns or throws and never stays up with no fetch in flight
C29_SingleFetch ==
    /\ [](/\ Len(inflight) <= 1
          /\ state.fetching <=> Len(inflight) = 1)
    /\ [][Len(inflight') < Len(inflight) => ~state'.fetching]_vars

\* nextSeed has been called on a stale pool while the first fetch was in
\* flight, and no second fetch was started
C29_Witness ==
    /\ state.fetching
    /\ Len(inflight) = 1
    /\ started = 1
    /\ Stale(state, now)
    /\ seed \in FallbackDraws

\* ------------------------------------------------------------------------
\* Properties of the renderer lifecycle
\* ------------------------------------------------------------------------
\* the compute substrate is unavailable to a run of the effect: there is
\* no navigator.gpu, or the initialisation of its renderer was rejected, or
\* its renderer has no compute
Unavailable(k) ==
    \/ effects[k].init = "none"
    \/ effects[k].init = "rejected"
    \/ effects[k].init = "resolved" /\ ~renderers[k].compute

\* no clear and no simulate dispatch has been issued since the component
\* mounted (frames run for the run of the effect whose root is mounted)
NoDispatch == frameOps = << >> /\ hist = ClearedHist /\ simLog = << >>

\* C23 as claimed: once the substrate has proved unavailable to a run of
\* the effect, the error is reported (gpuError is set), and no clear or
\* simulate dispatch is issued
C23_Original ==
    \A k \in 1 .. Len(effects) :
        Unavailable(k) => gpuError /\ (k \in roots => NoDispatch)

\* what the code does ensure: without navigator.gpu the error is reported
\* and no renderer is created; and whatever makes the substrate unavailable,
\* no clear or simulate dispatch is issued
C23_CheckedAtNavigator ==
    /\ ~navigatorGpu /\ effects # << >> =>
          gpuError /\ roots = {} /\ \A k \in 1 .. Len(effects) : renderers[k].status = "none"
    /\ \A k \in 1 .. Len(effects) :
          Unavailable(k) /\ k \in roots => NoDispatch

\* navigator.gpu is defined, the initialisation of the renderer was
\* rejected, and no error is reported
C23_Witness ==
    /\ navigatorGpu
    /\ Len(effects) = 1
    /\ effects[1].init = "rejected"
    /\ effects[1].live
    /\ ~gpuError
    /\ roots = {}

\* every run of the effect has been cleaned up and every initialisation
\* it started has resolved
Quiescent ==
    /\ effects # << >>
    /\ \A k \in 1 .. Len(effects) :
          ~effects[k].live /\ effects[k].init \in {"none", "resolved"}

\* C26: for every order of the resolutions of init and the cleanups,
\* once every run is cleaned up and no init is outstanding, every renderer
\* created is disposed, no canvas is in the mount element, no root and no
\* resize listener is installed, and the update hook is unset
C26_CleanAfterUnmount ==
    Quiescent =>
        /\ \A k \in 1 .. Len(renderers) : renderers[k].status \in {"none", "disposed"}
        /\ canvases = {}
        /\ roots = {}
        /\ listeners = {}
        /\ updateHook = 0

\* two runs: the first was cleaned up before its init resolved, the second
\* after it had rendered frames; both renderers are disposed
C26_Witness ==
    /\ Quiescent
    /\ Len(effects) = 2
    /\ ~effects[1].renderer /\ effects[1].cancelled
    /\ effects[2].renderer /\ effects[2].root
    /\ renderers[1].status = "disposed"
    /\ renderers[2].status = "disposed"
    /\ frameCount > 0

\* ------------------------------------------------------------------------
\* Properties of the frame loop
\* ------------------------------------------------------------------------
\* the handlers and frame steps that invalidate the accumulation
InvalidationOps == {"pan", "iterations", "rotation", "animate"}

SimulatesIn(ops) == Cardinality({i \in 1 .. Len(ops) : ops[i] = "simulate"})
ClearsIn(ops) == Cardinality({i \in 1 .. Len(ops) : ops[i] = "clear"})

\* the histogram the logged simulate dispatches produce from cleared buffers
RECURSIVE Replay(_, _, _, _)
Replay(log, u, h, i) ==
    IF i > Len(log) THEN h
    ELSE Replay(log, u, RunLanes(LaneSeeds(log[i]), u, h, 1), i + 1)

\* C1 (as stated): right after an invalidation event every histogram entry
\* reads 0 and the frameCount uniform is 1.
C1_Original ==
    lastOp \in InvalidationOps =>
        hist = ClearedHist /\ uniforms.frameCount = 1

\* C1: an invalidation marks the histogram invalid and resets frameCount (the
\* host counter to 0, the uniform to 1); the entries are zeroed by the clear
\* dispatch of the next frame, right after which every pixel of the three
\* channels reads 0, and no simulate dispatch runs while the mark is set.
C1_InvalidationThenClear ==
    /\ lastOp \in InvalidationOps =>
          needsClearRef /\ frameCount = 0 /\ uniforms.frameCount = 1
    /\ lastOp = "clear" =>
          /\ ~needsClearRef
          /\ \A ch \in Channels : \A idx \in DOMAIN hist[ch] : hist[ch][idx] = 0
    /\ lastOp = "simulate" => ~needsClearRef

\* a pan has just invalidated a histogram that holds hits
C1_Witness ==
    /\ lastOp = "pan"
    /\ needsClearRef
    /\ \E idx \in DOMAIN hist["R"] : hist["R"][idx] > 0

\* C2: a frame whose compute section starts with the histogram marked invalid
\* issues exactly one clear, before all its simulate dispatches, and clears
\* the mark; a frame that starts valid issues no clear; a simulate dispatch is
\* never issued while the mark is set.
C2_OneClearFirst ==
    /\ pc \in {"pass", "render"} =>
          /\ ~needsClearRef
          /\ ClearsIn(frameOps) = (IF invalidAtCompute THEN 1 ELSE 0)
          /\ invalidAtCompute => frameOps[1] = "clear"
          /\ SimulatesIn(frameOps) = passes
    /\ pc = "render" => SimulatesIn(frameOps) >= 1
    /\ (frameOps # << >> /\ frameOps[Len(frameOps)] = "simulate" /\ pc # "idle")
          => ~needsClearRef

\* a frame that followed an input event has ended after one clear and
\* several simulate dispatches
C2_Witness ==
    /\ pc = "render"
    /\ events > 0
    /\ invalidAtCompute
    /\ frameOps[1] = "clear"
    /\ Len(frameOps) >= 3

\* C3: when the tone mapper reads (the frame has ended), frameCount and the
\* frameCount uniform equal the number of simulate dispatches issued since
\* the last clear, and the histogram holds exactly the hits of those
\* dispatches.
C3_FrameCountIsPassCount ==
    pc = "render" =>
        /\ frameCount = Len(simLog)
        /\ uniforms.frameCount = Len(simLog)
        /\ hist = Replay(simLog, uniforms, ClearedHist, 1)

\* frames, a wheel event and a pan or parameter change have happened and
\* the counted histogram holds hits of several frames
C3_Witness ==
    /\ pc = "render"
    /\ events >= 2
    /\ frameCount > passes
    /\ passes >= 2
    /\ \E idx \in DOMAIN hist["R"] : hist["R"][idx] = frameCount

\* C4 (as stated): N = max(1, floor(12 / estimatedPassMs)) for every positive
\* estimate.
C4_Original ==
    (pc = "pass" /\ passes = maxPasses /\ lastFrameTime > 0) =>
        SimulatesIn(frameOps) =
            Max2(1, (COMPUTE_BUDGET_MS * TimeScale) \div lastFrameTime)

\* C4: the frame issues N = max(1, floor(12 / max(estimatedPassMs, 1)))
\* simulate dispatches: the claimed count for estimates of 1 ms and more,
\* and 12 for every estimate below 1 ms.
C4_PassCount ==
    (pc = "pass" /\ passes = maxPasses) =>
        SimulatesIn(frameOps) =
            (IF lastFrameTime < TimeScale THEN COMPUTE_BUDGET_MS
             ELSE IF lastFrameTime > COMPUTE_BUDGET_MS * TimeScale THEN 1
             ELSE (COMPUTE_BUDGET_MS * TimeScale) \div lastFrameTime)

\* the estimate is 3 ms and the frame has issued its 4 dispatches
C4_Witness ==
    /\ pc = "pass"
    /\ passes = maxPasses
    /\ lastFrameTime = 3 * TimeScale
    /\ SimulatesIn(frameOps) = 4



\* ------------------------------------------------------------------------
\* Kernel properties
\* ------------------------------------------------------------------------
LaneStarted(ln) == ln.pc \in {"retrace", "done"}
LanePlotted(ln) == LaneStarted(ln) /\ ln.quickEscape = 0 /\ ln.escaped = 1
LaneDiscarded(ln) == LaneStarted(ln) /\ ~(ln.quickEscape = 0 /\ ln.escaped = 1)
NoLaneRunning == \A l \in Lanes : lanes[l].pc \in {"idle", "done"}

\* The tally of a path: how many of the steps Z_1 .. Z_n of the orbit of c
\* from Z = 0, up to the first escaped one, project onto each pixel of the
\* viewport.  y = [z, tally].
TallyStep(y, c, u) ==
    LET nz == ZStep(y.z, c)
        p == juddhabrot(nz, c, SamplerArgs(u))
        idx == PixelIndex(p)
    IN  [z |-> nz,
         tally |-> IF ~InViewport(p) THEN y.tally
                   ELSE IF idx \in DOMAIN y.tally
                   THEN [y.tally EXCEPT ![idx] = @ + 1]
                   ELSE y.tally @@ (idx :> 1)]

RECURSIVE Tally(_, _, _, _)
Tally(y, c, u, n) ==
    IF n = 0 \/ Escaped(y.z) THEN y
    ELSE IF n = 1 THEN TallyStep(y, c, u)
    ELSE Tally(Tally(y, c, u, n \div 2), c, u, n - n \div 2)

\* The landings, channel ch, of the paths q[1] .. q[Len(q)] added to tally
RECURSIVE TallyPaths(_, _, _, _)
TallyPaths(q, ch, u, tally) ==
    IF q = << >> THEN tally
    ELSE TallyPaths(Tail(q), ch, u,
                    IF q[1][ch] = 1
                    THEN Tally([z |-> ZeroZ, tally |-> tally], q[1].c, u, q[1].steps).tally
                    ELSE tally)

\* C5: for every interleaving of the lanes of the dispatches of an epoch,
\* when no lane is running each counter of each channel equals the number
\* of in-viewport retrace steps of the epoch's paths that landed on its
\* pixel with the channel's write flag set.
C5_NoLostIncrement ==
    NoLaneRunning =>
        \A ch \in Channels : hist[ch] = TallyPaths(epochPaths, ch, uniforms, EmptyBuffer)

\* two lanes of one dispatch have both plotted and a pixel was hit twice
C5_Witness ==
    /\ \A l \in Lanes : lanes[l].pc = "done"
    /\ \E l1, l2 \in Lanes : l1 # l2 /\ LanePlotted(lanes[l1]) /\ LanePlotted(lanes[l2])
    /\ \E idx \in DOMAIN hist["R"] : hist["R"][idx] >= 2

\* C6: every counter is a non-negative integer; a step taken while a lane
\* is retracing changes a counter by 0 or by +1, and any other step leaves
\* the counters alone or is the clear, which zeroes all of them.
C6_CountersNonNegative ==
    \A ch \in Channels : \A idx \in DOMAIN hist[ch] : hist[ch][idx] \in Nat
C6_StepMonotone ==
    IF \E l \in Lanes : lanes[l].pc = "retrace"
    THEN \A ch \in Channels : \A idx \in DOMAIN hist[ch] \cup DOMAIN hist'[ch] :
            Element(hist'[ch], idx) - Element(hist[ch], idx) \in {0, 1}
    ELSE hist' = hist \/ hist' = ClearedHist
C6_Monotone == [](C6_CountersNonNegative) /\ [][C6_StepMonotone]_vars

\* counters were cleared after a dispatch and have been incremented again
C6_Witness ==
    /\ dispatched = 2
    /\ Len(epochPaths) <= NumLanes
    /\ \E idx \in DOMAIN hist["R"] : hist["R"][idx] >= 1

\* C7: a step of a lane whose path is discarded (quick reject, or no escape
\* by maxAll) leaves all three channels unmodified.
C7_DiscardLeavesHistogram ==
    [][\A l \in Lanes :
          (lanes'[l] # lanes[l] /\ LaneDiscarded(lanes'[l])) => hist' = hist]_vars

\* one lane was quick-rejected and another never escaped, beside a histogram
\* that holds hits
C7_Witness ==
    /\ \E l \in Lanes : lanes[l].pc = "done" /\ lanes[l].quickEscape = 1
    /\ \E l \in Lanes : lanes[l].pc = "done" /\ lanes[l].quickEscape = 0
                        /\ lanes[l].escaped = 0

\* C8: the retrace of a plotted path restarts from Z = 0, has not escaped
\* after any of its first escapeIter - 1 steps, and ends after exactly
\* escapeIter steps with |Z|^2 > 4.
C8_RetraceAgrees ==
    \A l \in Lanes :
        LET ln == lanes[l]
        IN  LanePlotted(ln) =>
              /\ ln.retraceIter <= ln.escapeIter
              /\ ln.retraceIter = 0 => ln.z = ZeroZ
              /\ ln.pc = "retrace" => (ln.retraceIter < ln.escapeIter /\ ~Escaped(ln.z))
              /\ ln.pc = "done" => (ln.retraceIter = ln.escapeIter /\ Escaped(ln.z))

C8_Witness ==
    \E l \in Lanes : /\ lanes[l].pc = "done" /\ LanePlotted(lanes[l])
                     /\ lanes[l].escapeIter = 300 /\ lanes[l].retraceIter = 300

\* C9: for every plotted path and channel the write flag is set iff
\* escapeIter <= the channel's threshold; with thresholds 50, 500, 5000 a
\* path escaping at 300 writes green and blue and not red.
C9_WriteFlags ==
    \A l \in Lanes :
        LET ln == lanes[l]
        IN  LanePlotted(ln) =>
              /\ (ln.writeR = 1) <=> (ln.escapeIter <= uniforms.redIter)
              /\ (ln.writeG = 1) <=> (ln.escapeIter <= uniforms.greenIter)
              /\ (ln.writeB = 1) <=> (ln.escapeIter <= uniforms.blueIter)
              /\ {ln.writeR, ln.writeG, ln.writeB} \subseteq {0, 1}
              /\ (/\ uniforms.redIter = 50 /\ uniforms.greenIter = 500
                  /\ uniforms.blueIter = 5000 /\ ln.escapeIter = 300)
                 => (ln.writeR = 0 /\ ln.writeG = 1 /\ ln.writeB = 1)

C9_Witness ==
    /\ uniforms.redIter = 50 /\ uniforms.greenIter = 500 /\ uniforms.blueIter = 5000
    /\ \E l \in Lanes : /\ LanePlotted(lanes[l]) /\ lanes[l].escapeIter = 300
                        /\ lanes[l].writeR = 0 /\ lanes[l].writeG = 1
                        /\ lanes[l].writeB = 1

\* C10 as claimed: pass 1 performs at most maxAll iterations, and at most
\* COMPILE_MAX_ITERATIONS.
C10_Original ==
    \A l \in Lanes :
        LaneStarted(lanes[l]) =>
            /\ lanes[l].iters <= uniforms.maxAllIter
            /\ lanes[l].iters <= COMPILE_MAX_ITERATIONS

\* C10 amended: pass 1 performs at most max(maxAll, MIN_ITERATIONS)
\* iterations (the quick reject loop always runs its MIN_ITERATIONS unless
\* the path escapes in it), and at most COMPILE_MAX_ITERATIONS.
C10_Pass1Bound ==
    \A l \in Lanes :
        LaneStarted(lanes[l]) =>
            /\ lanes[l].iters <= Max2(uniforms.maxAllIter, MIN_ITERATIONS)
            /\ lanes[l].iters <= COMPILE_MAX_ITERATIONS

\* a path is cut off at the ceiling under a threshold above it
C10_Witness ==
    /\ uniforms.maxAllIter > COMPILE_MAX_ITERATIONS
    /\ \E l \in Lanes : LaneStarted(lanes[l]) /\ lanes[l].iters = COMPILE_MAX_ITERATIONS

====
